---------------------------- MODULE Spec2Model ----------------------------
(***************************************************************************)
(* HerdWatch scoring, simulation and risk-detection engine.                *)
(*                                                                         *)
(* Number representation (TLC has integers only):                          *)
(*   - raw measurements, factor indices, scores, thresholds: thousandths   *)
(*     of the source unit (0.2 -> 200, 5 mm/day -> 5000, 30 km -> 30000);  *)
(*   - the Composite Suitability Index: millionths (0.4 -> 400000);        *)
(*   - coordinates: thousandths of a degree (6.25 deg -> 6250);            *)
(*   - distances computed by distanceKm: metres/100 (hectometres).         *)
(***************************************************************************)
EXTENDS Integers, Sequences, FiniteSets, TLC

VARIABLES
    values,      \* csi.ts: the FactorValues last handed to computeFactorIndices
    indices,     \* csi.ts: the FactorIndices it returned
    csi,         \* csi.ts: computeCSI(indices), millionths
    csiProbe,    \* csi.ts: the csi last handed to getMovementLikelihood
    likelihood,  \* csi.ts: the MovementLikelihood it returned
    gridLookup,      \* realFactors.ts: module-level Map of grid key -> FactorValues, or null
    conflictLookup,  \* realFactors.ts: module-level Map of grid key -> incidents/month, or null
    pc,          \* simulateHerds: "idle", "trail", "forecast" or "done"
    sim,         \* simulateHerds: its arguments and the movement.ts copy that runs
    seedIdx,     \* simulateHerds: index of the seed of the outer loop
    pos,         \* simulateHerds: lat/lng (trail loop) or fLat/fLng (forecast loop)
    loopDay,     \* simulateHerds: the variable d of the running loop
    trail,       \* simulateHerds: trail of the current herd
    predicted,   \* simulateHerds: predicted of the current herd
    last,        \* simulateHerds: lastReason, lastCsi, lastBand
    herds,       \* simulateHerds: the herds pushed so far; the result when done
    prevRun,     \* the caller's copy of the result of the preceding identical call
    usedLookups, \* gridLookup and conflictLookup as the running call found them
    riskIn,      \* detectRisks: its arguments herds, baseDay and scenario
    generated,   \* detectRisks: its local array alerts when the loops have ended
    risk,        \* detectRisks: the returned alerts, riskZones, alternativeRoutes
                 \* and suggestedActions
    workers,     \* per-seed loop bodies of simulateHerds run by concurrent workers:
                 \* the local variables of each body
    costs,       \* movement.ts: the candidates evaluateCandidate returned for a
                 \* measurement and for its conflict- and flood-free counterpart
    query        \* the arguments of the last call a caller made to getFactorValuesAt
                 \* (realFactors.ts) or to getRiskThresholdProfile (risk-config.ts),
                 \* and what it returned

csiVars == <<values, indices, csi, csiProbe, likelihood>>
gridVars == <<gridLookup, conflictLookup>>
simVars == <<pc, sim, seedIdx, pos, loopDay, trail, predicted, last, herds, prevRun,
            usedLookups>>
riskVars == <<riskIn, generated, risk>>
workerVars == <<workers>>
costVars == <<costs>>
queryVars == <<query>>
vars == <<csiVars, gridVars, simVars, riskVars, workerVars, costVars, queryVars>>

---------------------------------------------------------------------------
(* Arithmetic helpers (Math.min / Math.max of the source).                 *)

\* The value of an expression evaluated once: The({ e(x) : x \in { v } }) is
\* e with x standing for the value of v, as a "const x = v" of the source.
The(S) == CHOOSE x \in S : TRUE

Min(a, b) == The({ IF x <= y THEN x ELSE y : x \in { a }, y \in { b } })
Max(a, b) == The({ IF x >= y THEN x ELSE y : x \in { a }, y \in { b } })

---------------------------------------------------------------------------
(* src/lib/csi.ts                                                          *)

\* The value 1.0 of an index, in thousandths.
One == 1000

\* The value 1.0 of the CSI, in millionths.
CsiOne == 1000000

FACTOR_RANKS ==
    [ ndvi |-> 10, geospatial |-> 9, rainfall |-> 9, waterBodies |-> 9,
      floodExtent |-> 8, soilMoisture |-> 8, evapotranspiration |-> 7,
      landSurfaceTemp |-> 6 ]

\* Object.entries(FACTOR_WEIGHTS): the keys in declaration order.
FactorKeys ==
    << "ndvi", "geospatial", "rainfall", "waterBodies", "floodExtent",
       "soilMoisture", "evapotranspiration", "landSurfaceTemp" >>

indexRainfall(mmPerDay) ==
    IF mmPerDay < 5000 THEN 200 ELSE IF mmPerDay <= 20000 THEN 800 ELSE 300

indexNDVI(ndvi) ==
    IF ndvi < 200 THEN 100 ELSE IF ndvi <= 500 THEN 600 ELSE 1000

indexSoilMoisture(pct) ==
    IF pct < 20000 THEN 200 ELSE IF pct <= 40000 THEN 700 ELSE 400

indexWaterExtent(pct) ==
    IF pct < 10000 THEN 100 ELSE IF pct <= 30000 THEN 800 ELSE 900

indexEvapotranspiration(mmPerDay) ==
    IF mmPerDay < 2000 THEN 900 ELSE IF mmPerDay <= 5000 THEN 600 ELSE 300

indexLandSurfaceTemp(c) ==
    IF c < 25000 THEN 1000 ELSE IF c <= 30000 THEN 700 ELSE 400

indexFloodExtent(pct) ==
    IF pct < 5000 THEN 1000 ELSE IF pct <= 10000 THEN 500 ELSE 100

\* A plausible slip: the three sub-indices summed with weights 0.4/0.4/0.4.
indexGeospatial_sum(distToWaterKm, elevationAboveLocalM, conflictIncidentsPerMonth) ==
    LET waterIdx == IF distToWaterKm < 5000 THEN 1000
                    ELSE IF distToWaterKm <= 20000 THEN 600 ELSE 200
        elevIdx == IF elevationAboveLocalM >= 50000 THEN 800 ELSE 400
        conflictIdx == IF conflictIncidentsPerMonth = 0 THEN 1000
                       ELSE IF conflictIncidentsPerMonth <= 5000 THEN 500 ELSE 100
    IN  (waterIdx * 4 + elevIdx * 4 + conflictIdx * 4) \div 10

indexGeospatial(distToWaterKm, elevationAboveLocalM, conflictIncidentsPerMonth) ==
    LET waterIdx == IF distToWaterKm < 5000 THEN 1000
                    ELSE IF distToWaterKm <= 20000 THEN 600 ELSE 200
        elevIdx == IF elevationAboveLocalM >= 50000 THEN 800 ELSE 400
        conflictIdx == IF conflictIncidentsPerMonth = 0 THEN 1000
                       ELSE IF conflictIncidentsPerMonth <= 5000 THEN 500 ELSE 100
    IN  (waterIdx * 4 + elevIdx * 3 + conflictIdx * 3) \div 10

computeFactorIndices(v) ==
    [ ndvi |-> indexNDVI(v.ndvi),
      geospatial |-> indexGeospatial(v.distToWaterKm, v.elevationAboveLocalM,
                                     v.conflictIncidentsPerMonth),
      rainfall |-> indexRainfall(v.rainfallMmDay),
      waterBodies |-> indexWaterExtent(v.waterExtentPct),
      floodExtent |-> indexFloodExtent(v.floodExtentPct),
      soilMoisture |-> indexSoilMoisture(v.soilMoisturePct),
      evapotranspiration |-> indexEvapotranspiration(v.evapotranspirationMmDay),
      landSurfaceTemp |-> indexLandSurfaceTemp(v.landSurfaceTempC) ]

\* A plausible slip: land-surface temperature counted as a stress, its index
\* entering the sum as 1 - idx.
RECURSIVE WeightedSum_heatStress(_, _)
WeightedSum_heatStress(idx, k) ==
    IF k = 0 THEN [csi |-> 0, totalWeight |-> 0]
    ELSE The({ IF key \in DOMAIN idx
               THEN [csi |-> rest.csi + (IF key = "landSurfaceTemp" THEN 1000 - idx[key]
                                         ELSE idx[key]) * FACTOR_RANKS[key],
                     totalWeight |-> rest.totalWeight + FACTOR_RANKS[key]]
               ELSE rest
               : rest \in { WeightedSum_heatStress(idx, k - 1) }, key \in { FactorKeys[k] } })

\* The loop of computeCSI over Object.entries(FACTOR_WEIGHTS): the running
\* sums of idx * weight and of weight, both times ten (weight = rank / 10).
RECURSIVE WeightedSum(_, _)
WeightedSum(idx, k) ==
    IF k = 0 THEN [csi |-> 0, totalWeight |-> 0]
    ELSE The({ IF key \in DOMAIN idx
               THEN [csi |-> rest.csi + idx[key] * FACTOR_RANKS[key],
                     totalWeight |-> rest.totalWeight + FACTOR_RANKS[key]]
               ELSE rest
               : rest \in { WeightedSum(idx, k - 1) }, key \in { FactorKeys[k] } })

computeCSI(idx) ==
    The({ IF s.totalWeight > 0
          THEN Max(0, Min(CsiOne, (s.csi * 1000) \div s.totalWeight))
          ELSE 0
          : s \in { WeightedSum(idx, Len(FactorKeys)) } })

\* A plausible slip: the "high" band taken from 0.7 inclusive.
getMovementLikelihood_ge(c) ==
    IF c >= 700000
    THEN [band |-> "high", likelihoodPct |-> 300, moveKmMin |-> 0, moveKmMax |-> 5000]
    ELSE IF c >= 400000
    THEN [band |-> "moderate", likelihoodPct |-> 600, moveKmMin |-> 5000, moveKmMax |-> 20000]
    ELSE [band |-> "low", likelihoodPct |-> 900, moveKmMin |-> 50000, moveKmMax |-> 400000]

getMovementLikelihood(c) ==
    IF c > 700000
    THEN [band |-> "high", likelihoodPct |-> 300, moveKmMin |-> 0, moveKmMax |-> 5000]
    ELSE IF c >= 400000
    THEN [band |-> "moderate", likelihoodPct |-> 600, moveKmMin |-> 5000, moveKmMax |-> 20000]
    ELSE [band |-> "low", likelihoodPct |-> 900, moveKmMin |-> 50000, moveKmMax |-> 400000]

\* A plausible slip: the penalties taken off the cost instead of added.
getPathCost_bonus(c, conflictPenalty, floodPenalty) ==
    The({ (1000 * CsiOne) \div safeCsi - conflictPenalty - floodPenalty
          : safeCsi \in { Max(10000, Min(CsiOne, c)) } })

\* getPathCost, thousandths: 1 / max(0.01, min(1, csi)) + penalties.
getPathCost(c, conflictPenalty, floodPenalty) ==
    The({ (1000 * CsiOne) \div safeCsi + conflictPenalty + floodPenalty
          : safeCsi \in { Max(10000, Min(CsiOne, c)) } })

---------------------------------------------------------------------------
(* Numeric kernels.  The source calls Math.sqrt, Math.sin and Math.cos;    *)
(* here they are integer approximations with the same range and shape.     *)

RECURSIVE NewtonSqrt(_, _)
NewtonSqrt(n, x) ==
    The({ IF y >= x THEN x ELSE NewtonSqrt(n, y) : y \in { (x + n \div x) \div 2 } })

\* Math.sqrt: floor of the square root.
ISqrt(n) ==
    The({ IF m <= 0 THEN 0
          ELSE NewtonSqrt(m, IF m < 10000 THEN Min(m, 100)
                             ELSE IF m < 1000000 THEN 1000
                             ELSE IF m < 100000000 THEN 10000 ELSE 46340)
          : m \in { n } })

\* Math.round(x / d) for d > 0 (half rounds up).
RoundDiv(x, d) == (2 * x + d) \div (2 * d)

\* Math.sin((d / 365) * 2 * PI) in thousandths, d in days (Bhaskara's
\* rational approximation on each half period, error below 0.002).
SinYear(d) ==
    The({ LET u == IF t <= 365 THEN t ELSE t - 365
              q == u * (365 - u)
              h == (16000 * q) \div (666125 - 4 * q)
          IN  IF t <= 365 THEN h ELSE 0 - h
          : t \in { 2 * (d % 365) } })

\* Math.cos(lat * PI / 180) in thousandths (second-order Taylor term; the
\* latitudes of the model lie between 3 and 12 degrees).
CosLat(lat) == 1000 - (lat * lat) \div 6566000

\* seededRandom(seed): the fractional part of sin(seed * 9999) * 10000, a
\* stateless hash of its argument into [0,1).  The argument is the source's
\* seed times 1000; the result is in thousandths.  seededRandom_carried is
\* the generator that also reads what the preceding call left behind.
seededRandom_carried(seed) ==
    LET carried == IF "herds" \in DOMAIN prevRun THEN Len(prevRun.herds) ELSE 0
    IN  (((((seed + carried) % 65521) * 25173 + 13849) % 65536) \div 7) % 1000

seededRandom(seed) ==
    ((((seed % 65521) * 25173 + 13849) % 65536) \div 7) % 1000

---------------------------------------------------------------------------
(* src/unnamed/part_005 (lib/environment.ts)                               *)

WATER_BODIES ==
    << [id |-> "w1", lat |-> 4850, lng |-> 31600, type |-> "river"],
       [id |-> "w2", lat |-> 6210, lng |-> 31560, type |-> "river"],
       [id |-> "w3", lat |-> 9530, lng |-> 31650, type |-> "river"],
       [id |-> "w4", lat |-> 11750, lng |-> 32780, type |-> "river"],
       [id |-> "w5", lat |-> 7500, lng |-> 30500, type |-> "wetland"],
       [id |-> "w6", lat |-> 7800, lng |-> 31200, type |-> "wetland"],
       [id |-> "w7", lat |-> 6900, lng |-> 30800, type |-> "wetland"],
       [id |-> "w8", lat |-> 8500, lng |-> 28500, type |-> "river"],
       [id |-> "w9", lat |-> 9100, lng |-> 27000, type |-> "river"],
       [id |-> "w10", lat |-> 7700, lng |-> 28000, type |-> "river"],
       [id |-> "w11", lat |-> 8800, lng |-> 33000, type |-> "river"],
       [id |-> "w12", lat |-> 6800, lng |-> 33100, type |-> "river"],
       [id |-> "w13", lat |-> 7270, lng |-> 28680, type |-> "seasonal"],
       [id |-> "w14", lat |-> 7780, lng |-> 33000, type |-> "seasonal"],
       [id |-> "w15", lat |-> 9500, lng |-> 30500, type |-> "lake"] >>

VILLAGES ==
    << [id |-> "v1", lat |-> 4850, lng |-> 31600],
       [id |-> "v2", lat |-> 9530, lng |-> 31660],
       [id |-> "v3", lat |-> 7700, lng |-> 27990],
       [id |-> "v4", lat |-> 6210, lng |-> 31560],
       [id |-> "v5", lat |-> 6810, lng |-> 29680],
       [id |-> "v6", lat |-> 4570, lng |-> 28400],
       [id |-> "v7", lat |-> 4410, lng |-> 32570],
       [id |-> "v8", lat |-> 8770, lng |-> 27400],
       [id |-> "v9", lat |-> 4770, lng |-> 33590],
       [id |-> "v10", lat |-> 9230, lng |-> 29830],
       [id |-> "v11", lat |-> 6800, lng |-> 33130],
       [id |-> "v12", lat |-> 7270, lng |-> 28680],
       [id |-> "v13", lat |-> 8530, lng |-> 28100],
       [id |-> "v14", lat |-> 7780, lng |-> 33000],
       [id |-> "v15", lat |-> 11750, lng |-> 32780],
       [id |-> "v16", lat |-> 4090, lng |-> 30680],
       [id |-> "v17", lat |-> 3600, lng |-> 32060],
       [id |-> "v18", lat |-> 8620, lng |-> 33070],
       [id |-> "v19", lat |-> 8300, lng |-> 30100],
       [id |-> "v20", lat |-> 8570, lng |-> 27920] >>

\* radiusKm in hectometres; severity as its score (high 1, medium 0.6).
CONFLICT_ZONES ==
    << [id |-> "cz1", lat |-> 6800, lng |-> 33100, radiusKm |-> 500, severity |-> 1000],
       [id |-> "cz2", lat |-> 6500, lng |-> 31700, radiusKm |-> 400, severity |-> 1000],
       [id |-> "cz3", lat |-> 9600, lng |-> 31700, radiusKm |-> 350, severity |-> 1000],
       [id |-> "cz4", lat |-> 9200, lng |-> 29800, radiusKm |-> 300, severity |-> 600],
       [id |-> "cz5", lat |-> 9600, lng |-> 28400, radiusKm |-> 450, severity |-> 1000],
       [id |-> "cz6", lat |-> 6800, lng |-> 29700, radiusKm |-> 250, severity |-> 600],
       [id |-> "cz7", lat |-> 8000, lng |-> 28300, radiusKm |-> 300, severity |-> 600],
       [id |-> "cz8", lat |-> 4800, lng |-> 33500, radiusKm |-> 250, severity |-> 600] >>

\* The square of distanceKm, in square hectometres.
distanceSq(lat1, lng1, lat2, lng2) ==
    The({ dlat * dlat + dlng * dlng
          : dlat \in { ((lat2 - lat1) * 111) \div 100 },
            dlng \in { ((lng2 - lng1) * 111 * CosLat((lat1 + lat2) \div 2)) \div 100000 } })

\* distanceKm: flat-earth distance, in hectometres.
distanceKm(lat1, lng1, lat2, lng2) == ISqrt(distanceSq(lat1, lng1, lat2, lng2))

\* The loops "if (d < minDist) { minDist = d; nearest = p }" over the points
\* lo .. hi of pts: the index of the first point at minimal distance from
\* (lat, lng), with the square of that distance.  A later point replaces an
\* earlier one only when strictly nearer, so the nearest of a range is the
\* nearest of its upper half where that is strictly nearer than the nearest
\* of its lower half.
RECURSIVE NearestPoint(_, _, _, _, _)
NearestPoint(lat, lng, pts, lo, hi) ==
    IF lo = hi
    THEN [idx |-> lo, dsq |-> distanceSq(lat, lng, pts[lo].lat, pts[lo].lng)]
    ELSE The({ IF later.dsq < earlier.dsq THEN later ELSE earlier
               : earlier \in { NearestPoint(lat, lng, pts, lo, (lo + hi) \div 2) },
                 later \in { NearestPoint(lat, lng, pts, (lo + hi) \div 2 + 1, hi) } })

\* Day of year of a scenario: ((day + seasonalShift) % 365 + 365) % 365.
DayOfYear(scenario) == (scenario.day + scenario.seasonalShift) % 365

Clamp01(x) == Max(0, Min(1000, x))

vegetationAt(lat, lng, scenario) ==
    The({ LET minDistKm == ISqrt(near.dsq)
              waterProx == Max(0, 1000 - minDistKm \div 2)
              seasonal == 500 + SinYear(DayOfYear(scenario) - 90) \div 2
              rainBoost == (scenario.rainfallAnomaly + 1000) \div 2
              droughtPen == 1000 - scenario.droughtSeverity \div 2
              noise == (seededRandom((RoundDiv(lat, 10) * 1000 + RoundDiv(lng, 10)) * 1000)
                            * 3) \div 10
              veg == (Clamp01((waterProx * 400 + seasonal * 250 + rainBoost * 200
                                   + noise * 150) \div 1000) * droughtPen) \div 1000
          IN  Clamp01(veg)
          : near \in { NearestPoint(lat, lng, WATER_BODIES, 1, Len(WATER_BODIES)) } })

\* waterAt: score in thousandths, distKm in hectometres.
waterAt(lat, lng, scenario) ==
    The({ The({ LET wb == WATER_BODIES[near.idx]
                    doy == DayOfYear(scenario)
                    seasonalMult == IF wb.type = "seasonal"
                                    THEN (IF doy > 120 /\ doy < 300 THEN 1000 ELSE 200)
                                    ELSE 1000
                    floodBoost == (scenario.floodExtent * 3) \div 10
                IN  [ score |-> Clamp01(((1000 - (minDistKm * 2) \div 3) * seasonalMult)
                                            \div 1000 + floodBoost),
                      distKm |-> minDistKm ]
                : minDistKm \in { ISqrt(near.dsq) } })
          : near \in { NearestPoint(lat, lng, WATER_BODIES, 1, Len(WATER_BODIES)) } })

\* The loop of conflictHistoryAt over the zones lo .. hi: the greatest
\* proximity * severity of a zone within its radius, 0 when there is none.
RECURSIVE ConflictScore(_, _, _, _)
ConflictScore(lat, lng, lo, hi) ==
    IF lo = hi
    THEN The({ IF dsq < cz.radiusKm * cz.radiusKm
               THEN ((1000 - (ISqrt(dsq) * 1000) \div cz.radiusKm) * cz.severity) \div 1000
               ELSE 0
               : cz \in { CONFLICT_ZONES[lo] },
                 dsq \in { distanceSq(lat, lng, CONFLICT_ZONES[lo].lat,
                                      CONFLICT_ZONES[lo].lng) } })
    ELSE Max(ConflictScore(lat, lng, lo, (lo + hi) \div 2),
             ConflictScore(lat, lng, (lo + hi) \div 2 + 1, hi))

conflictHistoryAt(lat, lng) == ConflictScore(lat, lng, 1, Len(CONFLICT_ZONES))

\* nearestVillageDistance: distKm in hectometres.
nearestVillageDistance(lat, lng) ==
    The({ [ distKm |-> ISqrt(near.dsq), village |-> VILLAGES[near.idx].id ]
          : near \in { NearestPoint(lat, lng, VILLAGES, 1, Len(VILLAGES)) } })

---------------------------------------------------------------------------
(* src/lib/mockFactors.ts                                                  *)

mockElevationAboveLocalM(lat, lng) ==
    LET cellLat == (lat \div 500) * 500
        cellLng == (lng \div 500) * 500
    IN  (seededRandom(cellLat * 100 + cellLng) - 500) * 120

mockConflictIncidentsPerMonth(lat, lng) ==
    The({ IF h < 200 THEN 0
          ELSE IF h < 500 THEN RoundDiv(1000 + h * 4, 1000) * 1000
          ELSE RoundDiv(5000 + h * 3, 1000) * 1000
          : h \in { conflictHistoryAt(lat, lng) } })

getMockFactorValues(lat, lng, scenario) ==
    The({ LET dayOfYear == DayOfYear(scenario)
              seasonalRain == 3000 + 12 * Max(0, SinYear(dayOfYear - 90))
              anomaly == (scenario.rainfallAnomaly + 1000) * 4
              waterExtentPct == IF water.distKm < 50 THEN 35000
                                ELSE IF water.distKm < 150 THEN 15000
                                ELSE IF water.distKm < 250 THEN 8000 ELSE 3000
              evapotranspirationMmDay ==
                  2000 + (1000 - water.score) * 2
                       + (seededRandom(lat * 11 + lng * 7 + scenario.day * 1000) * 3) \div 2
              baseTemp == 26000 + SinYear(dayOfYear) * 4
              droughtBoost == scenario.droughtSeverity * 3
              landSurfaceTempC ==
                  Min(38000, Max(20000, baseTemp + droughtBoost
                                          + (seededRandom(lat * 31 + lng) - 500) * 2))
              floodExtentPct ==
                  Min(100000, scenario.floodExtent * 25
                                + (IF dayOfYear > 120 /\ dayOfYear < 300 THEN 5000 ELSE 0)
                                + seededRandom(lat * 19 + lng * 23) * 5)
          IN  The({ [ rainfallMmDay |-> rainfallMmDay,
                      ndvi |-> veg,
                      soilMoisturePct |->
                          Min(100000, Max(0, water.score * 35 + (rainfallMmDay * 25) \div 20
                                               + seededRandom(lat * 77 + lng * 41) * 15)),
                      waterExtentPct |-> waterExtentPct,
                      evapotranspirationMmDay |-> evapotranspirationMmDay,
                      landSurfaceTempC |-> landSurfaceTempC,
                      floodExtentPct |-> floodExtentPct,
                      distToWaterKm |-> water.distKm * 100,
                      elevationAboveLocalM |-> mockElevationAboveLocalM(lat, lng),
                      conflictIncidentsPerMonth |-> mockConflictIncidentsPerMonth(lat, lng) ]
                    : rainfallMmDay \in
                          { Max(0, seasonalRain + anomaly
                                     + (seededRandom(lat * 50 + lng * 30 + scenario.day * 1000)
                                            - 500) * 4) } })
          : veg \in { vegetationAt(lat, lng, scenario) },
            water \in { waterAt(lat, lng, scenario) } })

---------------------------------------------------------------------------
(* src/unnamed/part_007 (lib/data/realFactors.ts)                          *)

\* A module-level lookup that is still null.
NullLookup == [ loaded |-> FALSE, map |-> << >> ]

\* gridKey: the coordinate snapped to 0.1 degree (GRID_SNAP = 10).
gridKey(lat, lng) == << RoundDiv(lat, 100), RoundDiv(lng, 100) >>

\* The Map filled by "for (const cell of cells) lookup.set(gridKey(cell), f(cell))":
\* a later cell replaces an earlier one with the same key.
RECURSIVE LookupOf(_, _, _)
LookupOf(cells, field, k) ==
    IF k = 0 THEN << >>
    ELSE The({ [ x \in (DOMAIN rest) \cup {key} |->
                   IF x = key THEN cells[k][field] ELSE rest[x] ]
               : rest \in { LookupOf(cells, field, k - 1) },
                 key \in { gridKey(cells[k].lat, cells[k].lng) } })

\* The keys findNearest and getConflictIncidents try, in order: the exact key,
\* then the eight neighbours (dlat outer loop, dlng inner loop, centre skipped).
NeighbourOffsets ==
    << <<0, 0>>, <<0 - 100, 0 - 100>>, <<0 - 100, 0>>, <<0 - 100, 100>>,
       <<0, 0 - 100>>, <<0, 100>>, <<100, 0 - 100>>, <<100, 0>>, <<100, 100>> >>

RECURSIVE FirstHit(_, _, _, _)
FirstHit(map, lat, lng, k) ==
    IF k > Len(NeighbourOffsets) THEN << >>
    ELSE The({ IF key \in DOMAIN map THEN << map[key] >>
               ELSE FirstHit(map, lat, lng, k + 1)
               : key \in { gridKey(lat + NeighbourOffsets[k][1],
                                   lng + NeighbourOffsets[k][2]) } })

\* A plausible slip: the cell nearest by key distance searched in the whole
\* grid, not only among the eight neighbours.
findNearest_anyCell(lat, lng) ==
    IF ~gridLookup.loaded \/ DOMAIN gridLookup.map = {} THEN << >>
    ELSE The({ << gridLookup.map[
                    CHOOSE key \in DOMAIN gridLookup.map :
                        \A other \in DOMAIN gridLookup.map :
                            (key[1] - at[1]) * (key[1] - at[1])
                                + (key[2] - at[2]) * (key[2] - at[2])
                            <= (other[1] - at[1]) * (other[1] - at[1])
                                + (other[2] - at[2]) * (other[2] - at[2]) ] >>
               : at \in { gridKey(lat, lng) } })

\* findNearest: << values >> of the nearest grid cell, or << >> for null.
findNearest(lat, lng) ==
    IF ~gridLookup.loaded THEN << >> ELSE FirstHit(gridLookup.map, lat, lng, 1)

\* getConflictIncidents: << n >>, or << >> for null (no conflict grid loaded).
getConflictIncidents(lat, lng) ==
    IF ~conflictLookup.loaded THEN << >>
    ELSE The({ IF hit # << >> THEN hit ELSE << 0 >>
               : hit \in { FirstHit(conflictLookup.map, lat, lng, 1) } })

clamp(value, min, max) == Max(min, Min(max, value))

\* The product of two numbers given in thousandths.
Times(a, b) == (a * b) \div 1000

\* getFactorValuesAt of realFactors.ts.
getFactorValuesAt(lat, lng, scenario) ==
    The({ IF found = << >> THEN getMockFactorValues(lat, lng, scenario)
          ELSE
          LET realValues == found[1]
              rainfallMod == 1000 + (scenario.rainfallAnomaly * 4) \div 10
              droughtMod == Max(300, 1000 - (scenario.droughtSeverity * 7) \div 10)
              floodAdd == scenario.floodExtent * 28
              baseDoy == (scenario.day + scenario.seasonalShift * 7) % 365
              wetPhase == Max(0, SinYear(baseDoy - 120))
              seasonalFactor == 700 + (wetPhase * 3) \div 10
              rainWaterBoost == IF scenario.rainfallAnomaly > 0
                                THEN scenario.rainfallAnomaly * 5 ELSE 0
          IN  The({ LET adjustedNdvi ==
                            clamp(Times(Times(realValues.ndvi, droughtMod), seasonalFactor),
                                  50, 950)
                        rainSoilBoost == (adjustedRainfall * 8) \div 20
                        adjustedSoilMoisture ==
                            clamp(Times(Times(realValues.soilMoisturePct, droughtMod),
                                        seasonalFactor) + rainSoilBoost, 0, 100000)
                        adjustedWaterExtent ==
                            clamp(Times(realValues.waterExtentPct, seasonalFactor) + floodAdd
                                      + rainWaterBoost, 0, 100000)
                        adjustedET ==
                            clamp(realValues.evapotranspirationMmDay
                                      + (scenario.droughtSeverity * 12) \div 10, 500, 10000)
                        adjustedLST ==
                            clamp(realValues.landSurfaceTempC
                                      + (scenario.droughtSeverity * 25) \div 10, 15000, 50000)
                        rainFloodBoost == IF adjustedRainfall > 20000
                                          THEN (adjustedRainfall - 20000) * 2 ELSE 0
                        adjustedFlood ==
                            clamp(realValues.floodExtentPct + floodAdd + rainFloodBoost,
                                  0, 100000)
                    IN  [ rainfallMmDay |-> adjustedRainfall,
                          ndvi |-> adjustedNdvi,
                          soilMoisturePct |-> adjustedSoilMoisture,
                          waterExtentPct |-> adjustedWaterExtent,
                          evapotranspirationMmDay |-> adjustedET,
                          landSurfaceTempC |-> adjustedLST,
                          floodExtentPct |-> adjustedFlood,
                          distToWaterKm |-> realValues.distToWaterKm,
                          elevationAboveLocalM |-> realValues.elevationAboveLocalM,
                          conflictIncidentsPerMonth |->
                              IF conflicts # << >> THEN conflicts[1]
                              ELSE realValues.conflictIncidentsPerMonth ]
                    : adjustedRainfall \in
                          { clamp(Times(Times(Times(realValues.rainfallMmDay, rainfallMod),
                                              droughtMod), seasonalFactor), 0, 50000) },
                      conflicts \in { getConflictIncidents(lat, lng) } })
          : found \in { findNearest(lat, lng) } })

---------------------------------------------------------------------------
(* src/lib/constants.ts and src/lib/movement.ts.  The file holds two       *)
(* copies of the movement engine: the first reads realFactors.ts and has   *)
(* the Jonglei seeds, the second reads mockFactors.ts and has the older    *)
(* country-wide seeds.  "copy" below is 1 or 2.                            *)

SOUTH_SUDAN_BOUNDS == [ south |-> 5500, north |-> 8200, west |-> 30000, east |-> 33500 ]

\* The inward margin of the bounds test, 0.2 degree.
BoundsMargin == 200

HERD_SEEDS ==
    << [id |-> "H1", baseLat |-> 6250, baseLng |-> 31550, speed |-> 20, size |-> 850],
       [id |-> "H2", baseLat |-> 6550, baseLng |-> 31800, speed |-> 18, size |-> 700],
       [id |-> "H3", baseLat |-> 7100, baseLng |-> 31350, speed |-> 22, size |-> 900],
       [id |-> "H4", baseLat |-> 5900, baseLng |-> 31500, speed |-> 16, size |-> 500],
       [id |-> "H5", baseLat |-> 7400, baseLng |-> 30700, speed |-> 19, size |-> 750],
       [id |-> "H6", baseLat |-> 7650, baseLng |-> 31400, speed |-> 21, size |-> 800],
       [id |-> "H7", baseLat |-> 7800, baseLng |-> 32200, speed |-> 15, size |-> 450],
       [id |-> "H8", baseLat |-> 6700, baseLng |-> 32800, speed |-> 23, size |-> 950],
       [id |-> "H9", baseLat |-> 6400, baseLng |-> 30400, speed |-> 17, size |-> 600],
       [id |-> "H10", baseLat |-> 6100, baseLng |-> 32600, speed |-> 20, size |-> 700],
       [id |-> "H11", baseLat |-> 6800, baseLng |-> 31500, speed |-> 18, size |-> 550],
       [id |-> "H12", baseLat |-> 7900, baseLng |-> 31800, speed |-> 22, size |-> 850] >>

HERD_SEEDS_2 ==
    << [id |-> "H1", baseLat |-> 8200, baseLng |-> 27500, speed |-> 20, size |-> 850],
       [id |-> "H2", baseLat |-> 6800, baseLng |-> 30200, speed |-> 18, size |-> 700],
       [id |-> "H3", baseLat |-> 9500, baseLng |-> 31000, speed |-> 22, size |-> 900],
       [id |-> "H4", baseLat |-> 5200, baseLng |-> 31800, speed |-> 16, size |-> 500],
       [id |-> "H5", baseLat |-> 7000, baseLng |-> 25000, speed |-> 19, size |-> 750],
       [id |-> "H6", baseLat |-> 10200, baseLng |-> 29500, speed |-> 21, size |-> 800],
       [id |-> "H7", baseLat |-> 4500, baseLng |-> 28000, speed |-> 15, size |-> 450],
       [id |-> "H8", baseLat |-> 8800, baseLng |-> 33200, speed |-> 23, size |-> 950],
       [id |-> "H9", baseLat |-> 6000, baseLng |-> 26500, speed |-> 17, size |-> 600],
       [id |-> "H10", baseLat |-> 9000, baseLng |-> 27000, speed |-> 20, size |-> 700],
       [id |-> "H11", baseLat |-> 5800, baseLng |-> 34000, speed |-> 18, size |-> 550],
       [id |-> "H12", baseLat |-> 7500, baseLng |-> 32500, speed |-> 22, size |-> 850] >>

SeedsOf(copy) == IF copy = 1 THEN HERD_SEEDS ELSE HERD_SEEDS_2

DIR_NAMES ==
    << "north", "northeast", "east", "southeast",
       "south", "southwest", "west", "northwest" >>

\* directions of moveHerdOneDay, as multiples of stepDeg.
Directions ==
    << [dlat |-> 1, dlng |-> 0], [dlat |-> 1, dlng |-> 1],
       [dlat |-> 0, dlng |-> 1], [dlat |-> 0 - 1, dlng |-> 1],
       [dlat |-> 0 - 1, dlng |-> 0], [dlat |-> 0 - 1, dlng |-> 0 - 1],
       [dlat |-> 0, dlng |-> 0 - 1], [dlat |-> 1, dlng |-> 0 - 1] >>

\* The getFactorValuesAt each copy of movement.ts imports.
FactorValuesFor(copy, lat, lng, scenario) ==
    IF copy = 1 THEN getFactorValuesAt(lat, lng, scenario)
    ELSE getMockFactorValues(lat, lng, scenario)

\* The body of evaluateCandidate after the measurement v has been read.
candidateFrom(v, candidateLat, candidateLng) ==
    The({ The({
        LET conflictPenalty == IF v.conflictIncidentsPerMonth > 5000 THEN 1500
                               ELSE v.conflictIncidentsPerMonth \div 5
            floodPenalty == IF v.floodExtentPct > 10000 THEN 1500
                            ELSE v.floodExtentPct \div 50
        IN  [ lat |-> candidateLat, lng |-> candidateLng, csi |-> c,
              cost |-> getPathCost(c, conflictPenalty, floodPenalty), indices |-> idx ]
        : c \in { computeCSI(idx) } })
        : idx \in { computeFactorIndices(v) } })

evaluateCandidate(copy, candidateLat, candidateLng, scenario) ==
    The({ candidateFrom(v, candidateLat, candidateLng)
          : v \in { FactorValuesFor(copy, candidateLat, candidateLng, scenario) } })

\* dominantFactor: the first key of lowest index below 1, else "ndvi".
RECURSIVE DominantScan(_, _)
DominantScan(idx, k) ==
    IF k = 0 THEN [key |-> "ndvi", min |-> One]
    ELSE The({ IF idx[FactorKeys[k]] < rest.min
               THEN [key |-> FactorKeys[k], min |-> idx[FactorKeys[k]]]
               ELSE rest
               : rest \in { DominantScan(idx, k - 1) } })

dominantFactor(idx) == DominantScan(idx, Len(FactorKeys)).key

\* getLikelihoodMessage: the parts the message is assembled from.
getLikelihoodMessage(c, dominant, direction, distanceKmRounded) ==
    [ pct |-> getMovementLikelihood(c).likelihoodPct \div 10,
      distanceKm |-> distanceKmRounded, direction |-> direction,
      dominantFactor |-> dominant, csi |-> RoundDiv(c, 10000),
      band |-> getMovementLikelihood(c).band ]

\* kmThisDay of moveHerdOneDay, thousandths of a km.
KmThisDay(band, lat, lng, speedKmDay, scenario) ==
    IF band = "high"
    THEN 2000 + seededRandom(lat * 100 + lng * 50 + scenario.day * 1000) * 3
    ELSE IF band = "moderate"
    THEN Min(speedKmDay * 1000, 15000 + seededRandom(lat * 77 + lng * 33) * 5)
    ELSE Min(speedKmDay * 1200, 80000)

\* The i-th candidate (i from 0) of moveHerdOneDay with its jitter.
CandidateAt(i, lat, lng, stepDeg, scenario) ==
    LET dir == Directions[i + 1]
        jitter == ((seededRandom(scenario.day * 13000 + i * 7000 + lat * 100 + lng * 100)
                        - 500) * stepDeg) \div 5000
    IN  [ lat |-> lat + dir.dlat * stepDeg + jitter,
          lng |-> lng + dir.dlng * stepDeg + jitter ]

inBounds(cLat, cLng) ==
    /\ cLat >= SOUTH_SUDAN_BOUNDS.south + BoundsMargin
    /\ cLat <= SOUTH_SUDAN_BOUNDS.north - BoundsMargin
    /\ cLng >= SOUTH_SUDAN_BOUNDS.west + BoundsMargin
    /\ cLng <= SOUTH_SUDAN_BOUNDS.east - BoundsMargin

\* A plausible slip: "candidate.cost <= best.cost", the last of the cheapest
\* candidates wins.
RECURSIVE BestCandidate_lastWins(_, _, _, _, _, _, _)
BestCandidate_lastWins(copy, lat, lng, stepDeg, scenario, lo, hi) ==
    IF lo = hi
    THEN The({ IF ~inBounds(c.lat, c.lng) THEN [found |-> FALSE]
               ELSE [ found |-> TRUE,
                      best |-> evaluateCandidate(copy, c.lat, c.lng, scenario),
                      bestIdx |-> lo ]
               : c \in { CandidateAt(lo, lat, lng, stepDeg, scenario) } })
    ELSE The({ IF ~earlier.found THEN later
               ELSE IF ~later.found THEN earlier
               ELSE IF later.best.cost <= earlier.best.cost THEN later ELSE earlier
               : earlier \in { BestCandidate_lastWins(copy, lat, lng, stepDeg, scenario,
                                                      lo, (lo + hi) \div 2) },
                 later \in { BestCandidate_lastWins(copy, lat, lng, stepDeg, scenario,
                                                    (lo + hi) \div 2 + 1, hi) } })

\* The candidate loop of moveHerdOneDay over i = lo .. hi: best and bestIdx,
\* or none.  A later candidate replaces the best only at a strictly lower
\* cost ("!best || candidate.cost < best.cost").
RECURSIVE BestCandidate(_, _, _, _, _, _, _)
BestCandidate(copy, lat, lng, stepDeg, scenario, lo, hi) ==
    IF lo = hi
    THEN The({ IF ~inBounds(c.lat, c.lng) THEN [found |-> FALSE]
               ELSE [ found |-> TRUE,
                      best |-> evaluateCandidate(copy, c.lat, c.lng, scenario),
                      bestIdx |-> lo ]
               : c \in { CandidateAt(lo, lat, lng, stepDeg, scenario) } })
    ELSE The({ IF ~earlier.found THEN later
               ELSE IF ~later.found THEN earlier
               ELSE IF later.best.cost < earlier.best.cost THEN later ELSE earlier
               : earlier \in { BestCandidate(copy, lat, lng, stepDeg, scenario,
                                             lo, (lo + hi) \div 2) },
                 later \in { BestCandidate(copy, lat, lng, stepDeg, scenario,
                                           (lo + hi) \div 2 + 1, hi) } })

\* A plausible slip: the herd that cannot move is put back inside the bounds.
fallbackMove_clamped(lat, lng, currentCsi, band, kmThisDay) ==
    [ lat |-> Max(SOUTH_SUDAN_BOUNDS.south + BoundsMargin,
                  Min(SOUTH_SUDAN_BOUNDS.north - BoundsMargin, lat)),
      lng |-> Max(SOUTH_SUDAN_BOUNDS.west + BoundsMargin,
                  Min(SOUTH_SUDAN_BOUNDS.east - BoundsMargin, lng)),
      reason |-> getLikelihoodMessage(currentCsi, "no viable move (bounds)", "-", 0),
      csi |-> currentCsi, band |-> band, kmThisDay |-> kmThisDay, moved |-> FALSE ]

\* What moveHerdOneDay returns when the loop has left best null.
fallbackMove(lat, lng, currentCsi, band, kmThisDay) ==
    [ lat |-> lat, lng |-> lng,
      reason |-> getLikelihoodMessage(currentCsi, "no viable move (bounds)", "-", 0),
      csi |-> currentCsi, band |-> band, kmThisDay |-> kmThisDay, moved |-> FALSE ]

moveHerdOneDay(copy, lat, lng, speedKmDay, scenario) ==
    The({ The({ The({ The({ The({ The({
        IF ~sel.found
        THEN fallbackMove(lat, lng, currentCsi, band, kmThisDay)
        ELSE [ lat |-> sel.best.lat, lng |-> sel.best.lng,
               reason |-> getLikelihoodMessage(sel.best.csi,
                              dominantFactor(sel.best.indices),
                              DIR_NAMES[sel.bestIdx + 1], RoundDiv(kmThisDay, 1000)),
               csi |-> sel.best.csi, band |-> getMovementLikelihood(sel.best.csi).band,
               kmThisDay |-> kmThisDay, moved |-> TRUE ]
        \* stepDeg = kmThisDay / 111
        : sel \in { BestCandidate(copy, lat, lng, kmThisDay \div 111, scenario,
                                  0, Len(Directions) - 1) } })
        : kmThisDay \in { KmThisDay(band, lat, lng, speedKmDay, scenario) } })
        : band \in { getMovementLikelihood(currentCsi).band } })
        : currentCsi \in { computeCSI(currentIndices) } })
        : currentIndices \in { computeFactorIndices(currentValues) } })
        : currentValues \in { FactorValuesFor(copy, lat, lng, scenario) } })

---------------------------------------------------------------------------
(* src/lib/risk-config.ts.  Multipliers are in hundredths, so a product of *)
(* a base value and two multipliers is the source value times 10000:       *)
(* kilometre thresholds in units of 0.1 m, score thresholds in units of    *)
(* 10^-6 (the base scores 0.35 and 0.3 are themselves in hundredths).      *)

BASE ==
    [ convergenceKm |-> 35, villageProximityKm |-> 30, farmProximityKm |-> 20,
      resourceScarcityThreshold |-> 35, historyThreshold |-> 30 ]

COUNTY_RULES ==
    << [ county |-> "bor",
         bbox |-> [south |-> 5900, north |-> 6600, west |-> 31200, east |-> 31900],
         multipliers |-> [convergence |-> 90, village |-> 110, farm |-> 115,
                          scarcity |-> 100, history |-> 95] ],
       [ county |-> "duk",
         bbox |-> [south |-> 6600, north |-> 7400, west |-> 31000, east |-> 31700],
         multipliers |-> [convergence |-> 95, village |-> 100, farm |-> 100,
                          scarcity |-> 95, history |-> 90] ],
       [ county |-> "ayod",
         bbox |-> [south |-> 7300, north |-> 8200, west |-> 31100, east |-> 32200],
         multipliers |-> [convergence |-> 100, village |-> 95, farm |-> 90,
                          scarcity |-> 90, history |-> 90] ],
       [ county |-> "pibor",
         bbox |-> [south |-> 6000, north |-> 7500, west |-> 32300, east |-> 33500],
         multipliers |-> [convergence |-> 110, village |-> 120, farm |-> 100,
                          scarcity |-> 100, history |-> 80] ],
       [ county |-> "akobo",
         bbox |-> [south |-> 7400, north |-> 8200, west |-> 32400, east |-> 33500],
         multipliers |-> [convergence |-> 105, village |-> 110, farm |-> 90,
                          scarcity |-> 95, history |-> 85] ] >>

seasonFromDay(day) ==
    LET doy == day % 365
    IN  IF doy >= 100 /\ doy <= 285 THEN "wet"
        ELSE IF (doy >= 70 /\ doy < 100) \/ (doy > 285 /\ doy <= 320) THEN "transition"
        ELSE "dry"

\* COUNTY_RULES.find(r => the point lies in r.bbox): the index of the first
\* matching rule, 0 when there is none.
RECURSIVE FirstCounty(_, _, _)
FirstCounty(lat, lng, k) ==
    IF k > Len(COUNTY_RULES) THEN 0
    ELSE LET r == COUNTY_RULES[k]
         IN  IF /\ lat >= r.bbox.south /\ lat <= r.bbox.north
                /\ lng >= r.bbox.west /\ lng <= r.bbox.east
             THEN k ELSE FirstCounty(lat, lng, k + 1)

countyFromPoint(lat, lng) ==
    LET k == FirstCounty(lat, lng, 1)
    IN  IF k = 0 THEN "other" ELSE COUNTY_RULES[k].county

multipliersForCounty(county) ==
    LET hits == { k \in 1 .. Len(COUNTY_RULES) : COUNTY_RULES[k].county = county }
    IN  IF hits = {}
        THEN [convergence |-> 100, village |-> 100, farm |-> 100, scarcity |-> 100,
              history |-> 100]
        ELSE COUNTY_RULES[CHOOSE k \in hits : \A m \in hits : k <= m].multipliers

multipliersForSeason(season) ==
    IF season = "wet"
    THEN [convergence |-> 95, village |-> 100, farm |-> 100, scarcity |-> 85, history |-> 100]
    ELSE IF season = "transition"
    THEN [convergence |-> 100, village |-> 100, farm |-> 100, scarcity |-> 100,
          history |-> 100]
    ELSE [convergence |-> 105, village |-> 110, farm |-> 110, scarcity |-> 115,
          history |-> 100]

getRiskThresholdProfile(lat, lng, scenario) ==
    LET season == seasonFromDay(scenario.day)
        county == countyFromPoint(lat, lng)
        countyMul == multipliersForCounty(county)
        seasonMul == multipliersForSeason(season)
    IN  [ county |-> county,
          season |-> season,
          convergenceKm |-> BASE.convergenceKm * countyMul.convergence * seasonMul.convergence,
          villageProximityKm |-> BASE.villageProximityKm * countyMul.village * seasonMul.village,
          farmProximityKm |-> BASE.farmProximityKm * countyMul.farm * seasonMul.farm,
          resourceScarcityThreshold |->
              Min(700000, BASE.resourceScarcityThreshold * countyMul.scarcity
                              * seasonMul.scarcity),
          historyThreshold |->
              Min(800000, BASE.historyThreshold * countyMul.history * seasonMul.history) ]

---------------------------------------------------------------------------
(* src/lib/pois.ts                                                         *)

\* farmPolygon with the default sizeDeg 0.08: a closed ring of five corners.
farmPolygon(centerLat, centerLng) ==
    LET h == 80 \div 2
    IN  << <<centerLat - h, centerLng - h>>, <<centerLat - h, centerLng + h>>,
           <<centerLat + h, centerLng + h>>, <<centerLat + h, centerLng - h>>,
           <<centerLat - h, centerLng - h>> >>

FARMS ==
    << [id |-> "f1", bounds |-> farmPolygon(6350, 31450)],
       [id |-> "f2", bounds |-> farmPolygon(6850, 31600)],
       [id |-> "f3", bounds |-> farmPolygon(7100, 31250)],
       [id |-> "f4", bounds |-> farmPolygon(6550, 31850)],
       [id |-> "f5", bounds |-> farmPolygon(6100, 31480)],
       [id |-> "f6", bounds |-> farmPolygon(6250, 31720)],
       [id |-> "f7", bounds |-> farmPolygon(6720, 31180)],
       [id |-> "f8", bounds |-> farmPolygon(6480, 31580)] >>

---------------------------------------------------------------------------
(* src/unnamed/part_002 (lib/risk.ts): the conflict risk detection engine. *)
(* Herd ids, alert ids and map keys are strings in the source; here a      *)
(* string is the sequence of its character codes, so that sorting and      *)
(* joining ids behave as they do on strings.                               *)

\* bounds.reduce((s, b) => s + b[c], 0): the sum of one coordinate of a ring.
RECURSIVE SumCoord(_, _, _)
SumCoord(bounds, c, k) ==
    IF k = 0 THEN 0 ELSE SumCoord(bounds, c, k - 1) + bounds[k][c]

\* The loop of distToFarm over the farms lo .. hi: the least squared distance
\* to a farm centroid.
RECURSIVE MinFarmSq(_, _, _, _)
MinFarmSq(lat, lng, lo, hi) ==
    IF lo = hi
    THEN The({ LET centLat == SumCoord(f.bounds, 1, Len(f.bounds)) \div Len(f.bounds)
                   centLng == SumCoord(f.bounds, 2, Len(f.bounds)) \div Len(f.bounds)
               IN  distanceSq(lat, lng, centLat, centLng)
               : f \in { FARMS[lo] } })
    ELSE Min(MinFarmSq(lat, lng, lo, (lo + hi) \div 2),
             MinFarmSq(lat, lng, (lo + hi) \div 2 + 1, hi))

\* distToFarm, in hectometres.
distToFarm(lat, lng) == ISqrt(MinFarmSq(lat, lng, 1, Len(FARMS)))

\* getConflictRiskScoreAt of realFactors.ts: << score >> in thousandths from
\* the loaded conflict grid (ten incidents a month or more score 1), or << >>
\* for null while no conflict grid is loaded.
getConflictRiskScoreAt(lat, lng) ==
    The({ IF incidents = << >> THEN << >>
          ELSE << Clamp01(incidents[1] \div 10) >>
          : incidents \in { getConflictIncidents(lat, lng) } })

\* The directions table of findAlternativeGrazing (stepDeg = 0.3).
GrazingDirections ==
    << [dlat |-> 300, dlng |-> 0, name |-> "north"],
       [dlat |-> 300, dlng |-> 300, name |-> "northeast"],
       [dlat |-> 0, dlng |-> 300, name |-> "east"],
       [dlat |-> 0 - 300, dlng |-> 300, name |-> "southeast"],
       [dlat |-> 0 - 300, dlng |-> 0, name |-> "south"],
       [dlat |-> 0 - 300, dlng |-> 0 - 300, name |-> "southwest"],
       [dlat |-> 0, dlng |-> 0 - 300, name |-> "west"],
       [dlat |-> 300, dlng |-> 0 - 300, name |-> "northwest"] >>

\* The score of one candidate of findAlternativeGrazing, times 1000000:
\* veg * 0.4 + w.score * 0.3 + (distFromConflict / 100) * 0.3.
GrazingScore(cLat, cLng, avoidLat, avoidLng, scenario) ==
    vegetationAt(cLat, cLng, scenario) * 400
        + waterAt(cLat, cLng, scenario).score * 300
        + distanceKm(cLat, cLng, avoidLat, avoidLng) * 300

\* The loop of findAlternativeGrazing over the directions lo .. hi: a later
\* candidate replaces the best only with a strictly greater score.
RECURSIVE BestGrazing(_, _, _, _, _, _, _)
BestGrazing(fromLat, fromLng, avoidLat, avoidLng, scenario, lo, hi) ==
    IF lo = hi
    THEN The({ [ lat |-> cLat, lng |-> cLng, direction |-> d.name,
                 score |-> GrazingScore(cLat, cLng, avoidLat, avoidLng, scenario) ]
               : d \in { GrazingDirections[lo] },
                 cLat \in { fromLat + GrazingDirections[lo].dlat },
                 cLng \in { fromLng + GrazingDirections[lo].dlng } })
    ELSE The({ IF later.score > earlier.score THEN later ELSE earlier
               : earlier \in { BestGrazing(fromLat, fromLng, avoidLat, avoidLng, scenario,
                                           lo, (lo + hi) \div 2) },
                 later \in { BestGrazing(fromLat, fromLng, avoidLat, avoidLng, scenario,
                                         (lo + hi) \div 2 + 1, hi) } })

findAlternativeGrazing(fromLat, fromLng, avoidLat, avoidLng, scenario) ==
    The({ [lat |-> best.lat, lng |-> best.lng, direction |-> best.direction]
          : best \in { BestGrazing(fromLat, fromLng, avoidLat, avoidLng, scenario,
                                   1, Len(GrazingDirections)) } })

\* forecastDays = herds[0]?.predicted?.length ?? 4
forecastDaysOf(herdList) == IF herdList = << >> THEN 4 ELSE Len(herdList[1].predicted)

\* futurePositions: the predicted position of each herd for the day offset,
\* or its current position where its predicted list is too short.
futurePositions(herdList, dayOffset) ==
    [ k \in 1 .. Len(herdList) |->
        IF dayOffset <= Len(herdList[k].predicted)
        THEN [id |-> herdList[k].id, lat |-> herdList[k].predicted[dayOffset].lat,
              lng |-> herdList[k].predicted[dayOffset].lng]
        ELSE [id |-> herdList[k].id, lat |-> herdList[k].lat, lng |-> herdList[k].lng] ]

\* if (dist >= profile.convergenceKm) continue;  dist is in hectometres.
converging(dist, profile) == dist * 1000 < profile.convergenceKm

\* The four triggers at a midpoint, with what the alert reports of them.
triggersAt(midLat, midLng, profile, dayScenario) ==
    The({
        LET conflictHist == IF acledConflict # << >> THEN acledConflict[1]
                            ELSE conflictHistoryAt(midLat, midLng)
        IN
        [ resourceScarcity |-> \/ veg * 1000 < profile.resourceScarcityThreshold
                               \/ water.score * 1000 < profile.resourceScarcityThreshold,
          nearVillage |-> villageDist.distKm * 1000 < profile.villageProximityKm,
          nearFarm |-> farmDist * 1000 < profile.farmProximityKm,
          hasHistory |-> conflictHist * 1000 > profile.historyThreshold,
          acledBacked |-> acledConflict # << >>,
          village |-> villageDist.village ]
        : veg \in { vegetationAt(midLat, midLng, dayScenario) },
          water \in { waterAt(midLat, midLng, dayScenario) },
          villageDist \in { nearestVillageDistance(midLat, midLng) },
          farmDist \in { distToFarm(midLat, midLng) },
          acledConflict \in { getConflictRiskScoreAt(midLat, midLng) } })

\* [resourceScarcity, nearVillage, nearFarm, hasHistory].filter(Boolean).length
triggerCount(t) ==
    (IF t.resourceScarcity THEN 1 ELSE 0) + (IF t.nearVillage THEN 1 ELSE 0)
        + (IF t.nearFarm THEN 1 ELSE 0) + (IF t.hasHistory THEN 1 ELSE 0)

\* if (triggerCount < 2) continue;
enoughTriggers_one(count) == count >= 1

enoughTriggers_four(count) == count >= 4

enoughTriggers(count) == count >= 2

riskLevelOf_loose(dist, profile, count) ==
    IF dist * 10000 < profile.convergenceKm * 5 /\ count >= 3 THEN "high"
    ELSE IF dist * 10000 < profile.convergenceKm * 5 /\ count >= 2 THEN "medium"
    ELSE "low"

\* riskLevel: "low" unless one of the two stricter tests passes.
riskLevelOf(dist, profile, count) ==
    IF dist * 10000 < profile.convergenceKm * 3 /\ count >= 3 THEN "high"
    ELSE IF dist * 10000 < profile.convergenceKm * 5 /\ count >= 2 THEN "medium"
    ELSE "low"

riskCategoryOf_settlement(nearVillage, nearFarm, hasHistory) ==
    IF nearVillage \/ hasHistory THEN "community_protection" ELSE "resource_tension"

riskCategoryOf(nearVillage, nearFarm, hasHistory) ==
    IF nearVillage \/ nearFarm \/ hasHistory
    THEN "community_protection" ELSE "resource_tension"

\* Character codes of the literals that ids and keys are built from.
Dash == << 45 >>
AlertPrefix == << 97, 108, 101, 114, 116, 45 >>
TypeCodes(type) ==
    IF type = "redirect" THEN << 114, 101, 100, 105, 114, 101, 99, 116 >>
    ELSE << 100, 101, 108, 97, 121 >>

\* String(n) for a day offset.
RECURSIVE Digits(_)
Digits(n) == IF n < 10 THEN << 48 + n >> ELSE Digits(n \div 10) \o << 48 + (n % 10) >>

\* `alert-${a.id}-${b.id}-d${dayOffset}`
alertIdOf(aId, bId, dayOffset) ==
    AlertPrefix \o aId \o Dash \o bId \o Dash \o << 100 >> \o Digits(dayOffset)

\* A plausible slip: the delay left uncapped.
delayDaysOf_uncapped(dayOffset) == dayOffset

\* delayDays: Math.min(dayOffset, 2)
delayDaysOf(dayOffset) == Min(dayOffset, 2)

\* The body of the pair loop for futurePositions[i], futurePositions[j]:
\* emit is FALSE where the body ends with "continue".
pairStep(herdList, baseDay, scenario, dayOffset, i, j) ==
    The({ The({ The({
        IF ~converging(dist, profile) THEN [ emit |-> FALSE ]
        ELSE
        The({ The({
            IF ~enoughTriggers(count) THEN [ emit |-> FALSE ]
            ELSE
            The({
                LET suggestedActions ==
                        << [ herdId |-> a.id, type |-> "redirect",
                             riskCategory |-> riskCategory, direction |-> altA.direction,
                             delayDays |-> 0, targetLat |-> altA.lat, targetLng |-> altA.lng,
                             impactEstimate |-> "Lower conflict probability by ~40%" ],
                           [ herdId |-> b.id, type |-> "delay",
                             riskCategory |-> riskCategory, direction |-> "",
                             delayDays |-> delayDaysOf(dayOffset), targetLat |-> 0,
                             targetLng |-> 0,
                             impactEstimate |-> "Lower conflict probability by ~30%" ] >>
                IN  [ emit |-> TRUE,
                      alert |->
                          [ id |-> alertId, herdIds |-> << a.id, b.id >>,
                            lat |-> midLat, lng |-> midLng, daysAway |-> dayOffset,
                            riskLevel |-> riskLevel, riskCategory |-> riskCategory,
                            location |-> t.village,
                            triggers |->
                                [ herdConvergence |-> TRUE,
                                  resourceScarcity |-> t.resourceScarcity,
                                  nearVillage |-> t.nearVillage,
                                  nearFarmland |-> t.nearFarm,
                                  historicalConflict |-> t.hasHistory,
                                  acledBackedConflict |-> t.acledBacked ],
                            thresholdProfile |->
                                [ county |-> profile.county, season |-> profile.season ],
                            suggestedActions |-> suggestedActions ],
                      zone |-> [ lat |-> midLat, lng |-> midLng, radiusKm |-> 15,
                                 riskLevel |-> riskLevel, alertId |-> alertId ],
                      \* herds.find(h => h.id === a.id) finds herdList[i] or an earlier
                      \* herd with the same id; the ids of a herd list are distinct.
                      routes |->
                          << [ herdId |-> a.id, fromLat |-> herdList[i].lat,
                               fromLng |-> herdList[i].lng, toLat |-> altA.lat,
                               toLng |-> altA.lng, type |-> "redirect" ],
                             [ herdId |-> b.id, fromLat |-> herdList[j].lat,
                               fromLng |-> herdList[j].lng, toLat |-> altB.lat,
                               toLng |-> altB.lng, type |-> "delay" ] >>,
                      actions |-> suggestedActions ]
                : riskLevel \in { riskLevelOf(dist, profile, count) },
                  riskCategory \in { riskCategoryOf(t.nearVillage, t.nearFarm, t.hasHistory) },
                  alertId \in { alertIdOf(a.id, b.id, dayOffset) },
                  altA \in { findAlternativeGrazing(a.lat, a.lng, midLat, midLng, dayScenario) },
                  altB \in { findAlternativeGrazing(b.lat, b.lng, midLat, midLng, dayScenario) } })
            : count \in { triggerCount(t) } })
            : t \in { triggersAt(midLat, midLng, profile, dayScenario) } })
        : dist \in { distanceKm(a.lat, a.lng, b.lat, b.lng) },
          midLat \in { (a.lat + b.lat) \div 2 },
          midLng \in { (a.lng + b.lng) \div 2 },
          profile \in { getRiskThresholdProfile((a.lat + b.lat) \div 2, (a.lng + b.lng) \div 2,
                                                dayScenario) } })
        : a \in { fp[i] }, b \in { fp[j] } })
        : dayScenario \in { [ day |-> baseDay + dayOffset ] @@ scenario },
          fp \in { futurePositions(herdList, dayOffset) } })

\* A plausible slip: the inner loop begun at j = i, so that a herd is also
\* paired with itself.
RECURSIVE PairsFrom_self(_, _, _)
PairsFrom_self(i, j, n) ==
    IF i > n THEN << >>
    ELSE IF j > n + 1 THEN PairsFrom_self(i + 1, i + 2, n)
    ELSE << << i, j - 1 >> >> \o PairsFrom_self(i, j + 1, n)

\* The pairs (i, j), i < j, in the order of the two nested loops.
RECURSIVE PairsFrom(_, _, _)
PairsFrom(i, j, n) ==
    IF i >= n THEN << >>
    ELSE IF j > n THEN PairsFrom(i + 1, i + 2, n)
    ELSE << << i, j >> >> \o PairsFrom(i, j + 1, n)

\* What the loops have appended when nothing alerted.
NoAlerts ==
    [ alerts |-> << >>, riskZones |-> << >>, alternativeRoutes |-> << >>,
      allActions |-> << >> ]

\* The three nested loops of detectRisks over the visited (day, pair) steps
\* lo .. hi, in loop order: what they append to the arrays alerts, riskZones,
\* alternativeRoutes and allActions.  The steps of a range append what its
\* lower half appends followed by what its upper half appends.
RECURSIVE collectAlerts(_, _, _, _, _, _)
collectAlerts(herdList, baseDay, scenario, pairs, lo, hi) ==
    IF lo > hi THEN NoAlerts
    ELSE IF lo = hi
    THEN The({ IF ~out.emit THEN NoAlerts
               ELSE [ alerts |-> << out.alert >>,
                      riskZones |-> << out.zone >>,
                      alternativeRoutes |-> out.routes,
                      allActions |-> out.actions ]
               : out \in { The({ pairStep(herdList, baseDay, scenario, dayOffset, p[1], p[2])
                                 : dayOffset \in { (lo - 1) \div Len(pairs) + 1 },
                                   p \in { pairs[((lo - 1) % Len(pairs)) + 1] } }) } })
    ELSE The({ The({ [ alerts |-> lower.alerts \o upper.alerts,
                       riskZones |-> lower.riskZones \o upper.riskZones,
                       alternativeRoutes |->
                           lower.alternativeRoutes \o upper.alternativeRoutes,
                       allActions |-> lower.allActions \o upper.allActions ]
                     : lower \in { collectAlerts(herdList, baseDay, scenario, pairs, lo, mid) },
                       upper \in { collectAlerts(herdList, baseDay, scenario, pairs,
                                                 mid + 1, hi) } })
               : mid \in { (lo + hi) \div 2 } })

\* a < b for strings, by character code (the default order of Array.sort).
RECURSIVE StrLess(_, _)
StrLess(a, b) ==
    IF b = << >> THEN FALSE
    ELSE IF a = << >> THEN TRUE
    ELSE IF Head(a) # Head(b) THEN Head(a) < Head(b)
    ELSE StrLess(Tail(a), Tail(b))

\* a.herdIds.slice().sort().join("-")
pairKey(herdIds) ==
    IF StrLess(herdIds[2], herdIds[1])
    THEN herdIds[2] \o Dash \o herdIds[1]
    ELSE herdIds[1] \o Dash \o herdIds[2]

riskOrder(level) == IF level = "high" THEN 0 ELSE IF level = "medium" THEN 1 ELSE 2

\* The test that lets a later alert replace the one held for its key.
replaces_sooner(a, existing) == a.daysAway < existing.daysAway

replaces(a, existing) ==
    \/ riskOrder(a.riskLevel) < riskOrder(existing.riskLevel)
    \/ (a.riskLevel = existing.riskLevel /\ a.daysAway < existing.daysAway)

\* The value byKey holds for the key of the alerts in list (all of one key,
\* in loop order) after the first k of them.
RECURSIVE heldAfter(_, _)
heldAfter(list, k) ==
    IF k = 1 THEN list[1]
    ELSE The({ IF replaces(list[k], existing) THEN list[k] ELSE existing
               : existing \in { heldAfter(list, k - 1) } })

\* byKey after the loop over alerts: the Map as its entries in insertion
\* order (a replaced value keeps the place of its key).
byKeyOf(alerts) ==
    The({ The({ [ n \in 1 .. Len(firsts) |->
                    The({ [ key |-> keys[firsts[n]], value |-> heldAfter(list, Len(list)) ]
                          : list \in { SelectSeq(alerts, LAMBDA a :
                                           pairKey(a.herdIds) = keys[firsts[n]]) } }) ]
                : firsts \in { SelectSeq([ k \in 1 .. Len(alerts) |-> k ],
                                         LAMBDA k : \A m \in 1 .. k - 1 : keys[m] # keys[k]) } })
          : keys \in { [ k \in 1 .. Len(alerts) |-> pairKey(alerts[k].herdIds) ] } })

\* The comparator of the sort: negative when a goes before b.
compareAlerts(a, b) ==
    IF riskOrder(a.riskLevel) # riskOrder(b.riskLevel)
    THEN riskOrder(a.riskLevel) - riskOrder(b.riskLevel)
    ELSE a.daysAway - b.daysAway

\* Array.prototype.sort with compareAlerts (a stable sort): the first k
\* elements of list, sorted.
RECURSIVE sortAlerts(_, _)
sortAlerts(list, k) ==
    IF k = 0 THEN << >>
    ELSE The({ LET before == Cardinality({ m \in 1 .. Len(sorted) :
                                              compareAlerts(sorted[m], x) <= 0 })
               IN  SubSeq(sorted, 1, before) \o << x >>
                       \o SubSeq(sorted, before + 1, Len(sorted))
               : sorted \in { sortAlerts(list, k - 1) }, x \in { list[k] } })

\* .slice(0, 6)
capAlerts_seven(list) == SubSeq(list, 1, Min(7, Len(list)))

capAlerts(list) == SubSeq(list, 1, Min(6, Len(list)))

\* A plausible slip: the filter without its key test.
filterFirstOfKey_anyOfKey(list, wanted) ==
    The({ [ n \in 1 .. Len(kept) |-> list[kept[n]] ]
          : kept \in { SelectSeq([ k \in 1 .. Len(list) |-> k ], LAMBDA k : wanted[k]) } })

\* A filter that keeps the first element of each `${herdId}-${type}` key and
\* only if wanted holds at its index (the key is recorded either way).
filterFirstOfKey(list, wanted) ==
    The({ The({ [ n \in 1 .. Len(kept) |-> list[kept[n]] ]
                : kept \in { SelectSeq([ k \in 1 .. Len(list) |-> k ],
                                       LAMBDA k : /\ \A m \in 1 .. k - 1 : keys[m] # keys[k]
                                                  /\ wanted[k]) } })
          : keys \in { [ k \in 1 .. Len(list) |->
                            list[k].herdId \o Dash \o TypeCodes(list[k].type) ] } })

\* alerts.find(a => a.herdIds.includes(herdId))?.id ?? ""
firstAlertIdOf(alerts, herdId) ==
    The({ IF hits = {} THEN << >>
          ELSE alerts[CHOOSE k \in hits : \A m \in hits : k <= m].id
          : hits \in { { k \in 1 .. Len(alerts) :
                            alerts[k].herdIds[1] = herdId \/ alerts[k].herdIds[2] = herdId } } })

\* A plausible slip: the zones returned unfiltered.
dedupedZonesOf_all(riskZones, dedupedAlertIds) == riskZones

\* riskZones.filter((z) => dedupedAlertIds.has(z.alertId))
dedupedZonesOf(riskZones, dedupedAlertIds) ==
    SelectSeq(riskZones, LAMBDA z : z.alertId \in dedupedAlertIds)

\* What detectRisks does with its four arrays after the loops: deduplicate,
\* sort and cap the alerts, and filter zones, routes and actions.
finishRisks(acc) ==
    The({ The({ The({ The({
        LET dedupedZones == dedupedZonesOf(acc.riskZones, dedupedAlertIds)
            RouteWanted == [ k \in 1 .. Len(acc.alternativeRoutes) |->
                               firstAlertIdOf(acc.alerts, acc.alternativeRoutes[k].herdId)
                                   \in dedupedAlertIds ]
            AnyAction == [ k \in 1 .. Len(acc.allActions) |-> TRUE ]
        IN  [ alerts |-> dedupedAlerts,
              riskZones |-> dedupedZones,
              alternativeRoutes |-> filterFirstOfKey(acc.alternativeRoutes, RouteWanted),
              suggestedActions |-> filterFirstOfKey(acc.allActions, AnyAction) ]
        : dedupedAlertIds \in { { dedupedAlerts[m].id : m \in 1 .. Len(dedupedAlerts) } } })
        : dedupedAlerts \in { capAlerts(sortAlerts(values_, Len(values_))) } })
        : values_ \in { [ m \in 1 .. Len(byKey) |-> byKey[m].value ] } })
        : byKey \in { byKeyOf(acc.alerts) } })

\* The loops of detectRisks(herds, baseDay, scenario).
detectLoops(herdList, baseDay, scenario) ==
    The({ collectAlerts(herdList, baseDay, scenario, pairs, 1,
                        forecastDaysOf(herdList) * Len(pairs))
          : pairs \in { PairsFrom(1, 2, Len(herdList)) } })

detectRisks(herdList, baseDay, scenario) ==
    The({ finishRisks(acc) : acc \in { detectLoops(herdList, baseDay, scenario) } })

---------------------------------------------------------------------------
(* Inputs of the suitability calculator: each raw measurement below its    *)
(* lower band boundary, inside the band (on its upper boundary) and above. *)

RainfallSamples == {4999, 20000, 20001}
NdviSamples == {199, 500, 501}
SoilSamples == {19999, 40000, 40001}
WaterExtentSamples == {9999, 30000, 30001}
EtSamples == {1999, 5000, 5001}
LstSamples == {24999, 30000, 30001}
FloodSamples == {4999, 10000, 10001}
DistWaterSamples == {4999, 20000, 20001}
ElevationSamples == {0 - 60000, 49999, 50000}
ConflictSamples == {0, 5000, 5001}

FactorValuesSamples ==
    [ rainfallMmDay : RainfallSamples, ndvi : NdviSamples,
      soilMoisturePct : SoilSamples, waterExtentPct : WaterExtentSamples,
      evapotranspirationMmDay : EtSamples, landSurfaceTempC : LstSamples,
      floodExtentPct : FloodSamples, distToWaterKm : DistWaterSamples,
      elevationAboveLocalM : ElevationSamples,
      conflictIncidentsPerMonth : ConflictSamples ]

\* The csi values handed to getMovementLikelihood: a grid over [0,1] with
\* the two band boundaries and their neighbours.
ProbeStep == 5000
CsiProbes ==
    { k * ProbeStep : k \in 0 .. (CsiOne \div ProbeStep) }
        \cup { 399999, 400000, 400001, 699999, 700000, 700001 }

NoValues == [ none |-> TRUE ]

\* Bounds of the simulation inputs.
MaxCurrentDay == 1
MaxForecastDays == 2

\* scenario arguments (Omit<DayScenario, "day">): neutral, and a drought.
SimScenarios ==
    { [rainfallAnomaly |-> 0, droughtSeverity |-> 0, floodExtent |-> 0, seasonalShift |-> 0],
      [rainfallAnomaly |-> 0 - 600, droughtSeverity |-> 800, floodExtent |-> 0,
       seasonalShift |-> 0] }

\* A measurement of a degraded cell, as the environment API delivers it.
DegradedCell ==
    [ rainfallMmDay |-> 1000, ndvi |-> 120, soilMoisturePct |-> 8000,
      waterExtentPct |-> 2000, evapotranspirationMmDay |-> 6500,
      landSurfaceTempC |-> 36000, floodExtentPct |-> 0, distToWaterKm |-> 42000,
      elevationAboveLocalM |-> 10000, conflictIncidentsPerMonth |-> 2000 ]

\* Grids handed to setEnvironmentGrid / setConflictGrid: cells north and east
\* of the Bor seed, the second cell repeating the key of the first.
EnvironmentGrids ==
    { [ cells |-> << [lat |-> 6400, lng |-> 31600, values |-> DegradedCell],
                     [lat |-> 6410, lng |-> 31610, values |-> DegradedCell],
                     [lat |-> 6600, lng |-> 31900, values |-> DegradedCell] >> ] }

ConflictGrids ==
    { [ cellAggregates |-> << [lat |-> 6300, lng |-> 31700, incidentsPerMonth |-> 7000] >> ] }

NoRun == [ none |-> TRUE ]
NoPos == [ lat |-> 0, lng |-> 0, fLat |-> 0, fLng |-> 0 ]
NoLast == [ lastReason |-> "", lastCsi |-> 500000, lastBand |-> "moderate" ]

CsiIdle ==
    /\ values = NoValues
    /\ indices = NoValues
    /\ csi = 0
    /\ csiProbe = 0 - 1
    /\ likelihood = NoValues

GridIdle ==
    /\ gridLookup = NullLookup
    /\ conflictLookup = NullLookup

RunIdle ==
    /\ pc = "idle"
    /\ sim = NoRun
    /\ seedIdx = 0
    /\ pos = NoPos
    /\ loopDay = 0
    /\ trail = << >>
    /\ predicted = << >>
    /\ last = NoLast
    /\ herds = << >>
    /\ prevRun = NoRun
    /\ usedLookups = [ gridLookup |-> NullLookup, conflictLookup |-> NullLookup ]

RiskIdle ==
    /\ riskIn = NoValues
    /\ generated = << >>
    /\ risk = NoValues

\* No worker has been started.
NoWorkers == << >>

WorkersIdle == workers = NoWorkers

CostIdle == costs = NoValues

QueryIdle == query = NoValues

SimIdle == GridIdle /\ RunIdle /\ RiskIdle /\ WorkersIdle /\ CostIdle /\ QueryIdle

---------------------------------------------------------------------------
(* Suitability calculator: a caller holds a measurement and indexes it.    *)

InitCSI ==
    /\ values \in FactorValuesSamples
    /\ indices = NoValues
    /\ csi = 0
    /\ csiProbe = 0 - 1
    /\ likelihood = NoValues
    /\ SimIdle

\* computeCSI(computeFactorIndices(values)).
ComputeFactorIndices ==
    /\ values # NoValues
    /\ indices = NoValues
    /\ indices' = computeFactorIndices(values)
    /\ csi' = computeCSI(computeFactorIndices(values))
    /\ UNCHANGED <<values, csiProbe, likelihood, gridVars, simVars, riskVars, workerVars, costVars, queryVars>>

NextCSI == ComputeFactorIndices
SpecCSI == InitCSI /\ [][NextCSI]_vars

\* A caller holds a csi in [0,1] and classifies it.
InitBand ==
    /\ values = NoValues
    /\ indices = NoValues
    /\ csi = 0
    /\ csiProbe \in CsiProbes
    /\ likelihood = NoValues
    /\ SimIdle

\* getMovementLikelihood(csiProbe).
GetMovementLikelihood ==
    /\ csiProbe >= 0
    /\ likelihood = NoValues
    /\ likelihood' = getMovementLikelihood(csiProbe)
    /\ UNCHANGED <<values, indices, csi, csiProbe, gridVars, simVars, riskVars, workerVars, costVars, queryVars>>

NextBand == GetMovementLikelihood
SpecBand == InitBand /\ [][NextBand]_vars

---------------------------------------------------------------------------
(* The factor provider: the page loads grids in any order and any number   *)
(* of times, and callers ask for the measurement at a coordinate.          *)

\* Grids the environment and conflict APIs may deliver, with and without
\* cells.
ProviderGrids == EnvironmentGrids \cup { [ cells |-> << >> ] }
ProviderConflictGrids == ConflictGrids \cup { [ cellAggregates |-> << >> ] }

\* Coordinates asked for: on a cell, one key beside a cell, on the rounding
\* boundary beside a cell, two keys from any cell, and far from all cells.
QueryPoints ==
    { [lat |-> 6400, lng |-> 31600], [lat |-> 6250, lng |-> 31550],
      [lat |-> 6549, lng |-> 31750], [lat |-> 6200, lng |-> 31600],
      [lat |-> 6649, lng |-> 32049], [lat |-> 7500, lng |-> 30500] }

QueryScenarios ==
    { [ day |-> d ] @@ scenario : d \in {0, 200}, scenario \in SimScenarios }

InitFactors == CsiIdle /\ SimIdle

\* setEnvironmentGrid(grid), from the page's fetch of /api/environment.
LoadEnvironmentGrid ==
    \E grid \in ProviderGrids :
        /\ gridLookup' = [ loaded |-> TRUE,
                           map |-> LookupOf(grid.cells, "values", Len(grid.cells)) ]
        /\ UNCHANGED <<csiVars, conflictLookup, simVars, riskVars, workerVars, costVars,
                       queryVars>>

\* setConflictGrid(grid), from the page's fetch of /api/conflicts.
LoadConflictGrid ==
    \E grid \in ProviderConflictGrids :
        /\ conflictLookup' =
               [ loaded |-> TRUE,
                 map |-> LookupOf(grid.cellAggregates, "incidentsPerMonth",
                                  Len(grid.cellAggregates)) ]
        /\ UNCHANGED <<csiVars, gridLookup, simVars, riskVars, workerVars, costVars,
                       queryVars>>

\* getFactorValuesAt(lat, lng, scenario); the caller keeps the arguments, the
\* environment lookup the call found, and the result.
GetFactorValuesAt ==
    \E p \in QueryPoints, scenario \in QueryScenarios :
        /\ query' = [ lat |-> p.lat, lng |-> p.lng, scenario |-> scenario,
                      gridLookup |-> gridLookup,
                      result |-> getFactorValuesAt(p.lat, p.lng, scenario) ]
        /\ UNCHANGED <<csiVars, gridVars, simVars, riskVars, workerVars, costVars>>

NextFactors ==
    \/ LoadEnvironmentGrid
    \/ LoadConflictGrid
    \/ GetFactorValuesAt

SpecFactors == InitFactors /\ [][NextFactors]_vars

---------------------------------------------------------------------------
(* The threshold configuration: callers ask for the profile at a point.    *)

\* Points asked for: a lattice of 0.05 by 0.1 degree over the five county
\* boxes and a strip around them.
CountyPoints ==
    { [ lat |-> 5800 + 50 * i, lng |-> 30900 + 100 * j ] : i \in 0 .. 50, j \in 0 .. 27 }

\* Days in the dry and in the wet season.
CountyScenarios ==
    { [ day |-> d ] @@ scenario : d \in {0, 200}, scenario \in { The(SimScenarios) } }

InitCounty == CsiIdle /\ SimIdle

\* getRiskThresholdProfile(lat, lng, scenario).
GetRiskThresholdProfile ==
    \E p \in CountyPoints, scenario \in CountyScenarios :
        /\ query = NoValues
        /\ query' = [ lat |-> p.lat, lng |-> p.lng, scenario |-> scenario,
                      profile |-> getRiskThresholdProfile(p.lat, p.lng, scenario) ]
        /\ UNCHANGED <<csiVars, gridVars, simVars, riskVars, workerVars, costVars>>

NextCounty == GetRiskThresholdProfile
SpecCounty == InitCounty /\ [][NextCounty]_vars

---------------------------------------------------------------------------
(* A caller holds a set of factor indices and its CSI, raises one index   *)
(* and computes the CSI again.                                             *)

\* Index values: the ends and the middle of [0,1], and for the factors of
\* highest and lowest rank also values outside it (computeCSI clamps).
IndexLevels == {0, 500, 1000}
WideIndexLevels == {0 - 200, 0, 500, 1000, 1200}

IndexSets ==
    [ ndvi : WideIndexLevels, geospatial : IndexLevels, rainfall : IndexLevels,
      waterBodies : IndexLevels, floodExtent : IndexLevels, soilMoisture : IndexLevels,
      evapotranspiration : IndexLevels, landSurfaceTemp : WideIndexLevels ]

InitRaise ==
    /\ values = NoValues
    /\ indices \in IndexSets
    /\ csi = computeCSI(indices)
    /\ csiProbe = 0 - 1
    /\ likelihood = NoValues
    /\ SimIdle

\* One factor index is replaced by a larger value and computeCSI is called
\* on the new set.
RaiseIndex ==
    \E key \in DOMAIN FACTOR_RANKS, x \in WideIndexLevels :
        /\ indices # NoValues
        /\ x > indices[key]
        /\ [ indices EXCEPT ![key] = x ] \in IndexSets
        /\ indices' = [ indices EXCEPT ![key] = x ]
        /\ csi' = computeCSI([ indices EXCEPT ![key] = x ])
        /\ UNCHANGED <<values, csiProbe, likelihood, gridVars, simVars, riskVars,
                       workerVars, costVars, queryVars>>

NextRaise == RaiseIndex
SpecRaise == InitRaise /\ [][NextRaise]_vars

---------------------------------------------------------------------------
(* Scoring of one measurement: the band moveHerdOneDay derives from it and *)
(* the cost evaluateCandidate gives it as a candidate cell.                *)

\* The measurement of the balanced scenario; the scenario leaves
\* evapotranspiration and land-surface temperature open.
BalancedMeasurements ==
    [ rainfallMmDay : {12000}, ndvi : {350}, soilMoisturePct : {30000},
      waterExtentPct : {20000}, evapotranspirationMmDay : EtSamples,
      landSurfaceTempC : LstSamples, floodExtentPct : {3000},
      distToWaterKm : {10000}, elevationAboveLocalM : {60000},
      conflictIncidentsPerMonth : {0} ]

\* Measurements with 6 conflict incidents a month and 15% flood extent.
StressedMeasurements ==
    [ rainfallMmDay : RainfallSamples, ndvi : NdviSamples,
      soilMoisturePct : SoilSamples, waterExtentPct : WaterExtentSamples,
      evapotranspirationMmDay : EtSamples, landSurfaceTempC : LstSamples,
      floodExtentPct : {15000}, distToWaterKm : DistWaterSamples,
      elevationAboveLocalM : ElevationSamples,
      conflictIncidentsPerMonth : {6000} ]

\* The same measurement without conflict and without flood.
calmOf(v) == [ v EXCEPT !.conflictIncidentsPerMonth = 0, !.floodExtentPct = 0 ]

\* The cell the measurements are taken at (the Bor seed).
ScoreCell == [ lat |-> 6200, lng |-> 31560 ]

InitScore ==
    /\ values \in BalancedMeasurements \cup StressedMeasurements
    /\ indices = NoValues
    /\ csi = 0
    /\ csiProbe = 0 - 1
    /\ likelihood = NoValues
    /\ SimIdle

\* currentIndices, currentCsi and getMovementLikelihood(currentCsi) of the
\* measurement, as moveHerdOneDay derives them.
ClassifyMeasurement ==
    /\ values # NoValues
    /\ likelihood = NoValues
    /\ indices' = computeFactorIndices(values)
    /\ csi' = computeCSI(computeFactorIndices(values))
    /\ likelihood' = getMovementLikelihood(computeCSI(computeFactorIndices(values)))
    /\ UNCHANGED <<values, csiProbe, gridVars, simVars, riskVars, workerVars, costVars, queryVars>>

\* evaluateCandidate on the measurement and on its calm counterpart.
EvaluateCandidates ==
    /\ values # NoValues
    /\ costs = NoValues
    /\ costs' = [ of |-> values,
                  given |-> candidateFrom(values, ScoreCell.lat, ScoreCell.lng),
                  calm |-> candidateFrom(calmOf(values), ScoreCell.lat, ScoreCell.lng) ]
    /\ UNCHANGED <<csiVars, gridVars, simVars, riskVars, workerVars, queryVars>>

NextScore == ClassifyMeasurement \/ EvaluateCandidates
SpecScore == InitScore /\ [][NextScore]_vars

---------------------------------------------------------------------------
(* Movement simulator: simulateHerds runs one moveHerdOneDay at a time;    *)
(* the grid setters run between calls (the engine is synchronous).         *)

InitSim == CsiIdle /\ SimIdle

\* setEnvironmentGrid(grid).
SetEnvironmentGrid ==
    \E grid \in EnvironmentGrids :
        /\ pc \in {"idle", "done"}
        /\ gridLookup' = [ loaded |-> TRUE,
                           map |-> LookupOf(grid.cells, "values", Len(grid.cells)) ]
        /\ UNCHANGED <<csiVars, conflictLookup, simVars, riskVars, workerVars, costVars, queryVars>>

\* setConflictGrid(grid).
SetConflictGrid ==
    \E grid \in ConflictGrids :
        /\ pc \in {"idle", "done"}
        /\ conflictLookup' =
               [ loaded |-> TRUE,
                 map |-> LookupOf(grid.cellAggregates, "incidentsPerMonth",
                                  Len(grid.cellAggregates)) ]
        /\ UNCHANGED <<csiVars, gridLookup, simVars, riskVars, workerVars, costVars, queryVars>>

\* A plausible slip: pastDays taken as 7 whatever the current day.
BeginHerd_sevenDays(k, run) ==
    /\ seedIdx' = k
    /\ pos' = [ lat |-> SeedsOf(run.copy)[k].baseLat, lng |-> SeedsOf(run.copy)[k].baseLng,
                fLat |-> 0, fLng |-> 0 ]
    /\ loopDay' = run.currentDay - 7
    /\ trail' = << >>
    /\ predicted' = << >>
    /\ last' = NoLast
    /\ pc' = "trail"

\* The head of the per-seed loop body: lat, lng, trail and the first day.
BeginHerd(k, run) ==
    /\ seedIdx' = k
    /\ pos' = [ lat |-> SeedsOf(run.copy)[k].baseLat, lng |-> SeedsOf(run.copy)[k].baseLng,
                fLat |-> 0, fLng |-> 0 ]
    /\ loopDay' = run.currentDay - Min(run.currentDay, 7)
    /\ trail' = << >>
    /\ predicted' = << >>
    /\ last' = NoLast
    /\ pc' = "trail"

\* simulateHerds(currentDay, forecastDays, scenario) is called.  A caller that
\* repeats its preceding call keeps that call's result to compare.
StartSimulation ==
    \E copy \in {1, 2}, currentDay \in 0 .. MaxCurrentDay,
       forecastDays \in {0, MaxForecastDays}, scenario \in SimScenarios :
        LET run == [ copy |-> copy, currentDay |-> currentDay,
                     forecastDays |-> forecastDays, scenario |-> scenario ]
        IN  /\ pc \in {"idle", "done"}
            /\ sim' = run
            /\ herds' = << >>
            /\ prevRun' = IF pc = "done" /\ sim = run
                          THEN [ sim |-> sim, herds |-> herds,
                                 gridLookup |-> usedLookups.gridLookup,
                                 conflictLookup |-> usedLookups.conflictLookup ]
                          ELSE NoRun
            /\ usedLookups' = [ gridLookup |-> gridLookup,
                                conflictLookup |-> conflictLookup ]
            /\ BeginHerd(1, run)
            /\ UNCHANGED <<csiVars, gridVars, riskVars, workerVars, costVars, queryVars>>

\* The tail of the per-seed loop body: the herd is pushed; the next seed
\* begins or simulateHerds returns.
PushHerd(lat, lng, newTrail, newPredicted, newLast) ==
    LET seed == SeedsOf(sim.copy)[seedIdx]
        confidence == 700 + seededRandom(seed.baseLat * 100 + seed.baseLng * 50
                                             + sim.currentDay * 1000) \div 4
        herd == [ id |-> seed.id, lat |-> lat, lng |-> lng, size |-> seed.size,
                  confidence |-> confidence, speedKmDay |-> seed.speed,
                  trail |-> newTrail, predicted |-> newPredicted,
                  decisionReason |-> newLast.lastReason, csi |-> newLast.lastCsi,
                  movementBand |-> newLast.lastBand ]
    IN  /\ herds' = Append(herds, herd)
        /\ IF seedIdx < Len(SeedsOf(sim.copy))
           THEN BeginHerd(seedIdx + 1, sim)
           ELSE /\ pc' = "done"
                /\ seedIdx' = 0
                /\ pos' = NoPos
                /\ loopDay' = 0
                /\ trail' = << >>
                /\ predicted' = << >>
                /\ last' = NoLast

\* One iteration of the trail loop (loopDay from currentDay - pastDays to currentDay).
TrailStep ==
    /\ pc = "trail"
    /\ \E scenario \in { [ day |-> loopDay ] @@ sim.scenario } :
       \E result \in { moveHerdOneDay(sim.copy, pos.lat, pos.lng,
                                       SeedsOf(sim.copy)[seedIdx].speed, scenario) } :
       LET newTrail == Append(trail, [lat |-> result.lat, lng |-> result.lng, day |-> loopDay])
       IN  IF loopDay + 1 <= sim.currentDay
           THEN /\ pos' = [pos EXCEPT !.lat = result.lat, !.lng = result.lng]
                /\ trail' = newTrail
                /\ loopDay' = loopDay + 1
                /\ UNCHANGED <<pc, seedIdx, predicted, last, herds>>
           ELSE IF sim.forecastDays >= 1
           THEN /\ pos' = [ lat |-> result.lat, lng |-> result.lng,
                            fLat |-> result.lat, fLng |-> result.lng ]
                /\ trail' = newTrail
                /\ loopDay' = 1
                /\ pc' = "forecast"
                /\ UNCHANGED <<seedIdx, predicted, last, herds>>
           ELSE PushHerd(result.lat, result.lng, newTrail, << >>, NoLast)
    /\ UNCHANGED <<csiVars, gridVars, sim, prevRun, usedLookups, riskVars, workerVars, costVars, queryVars>>

\* One iteration of the forecast loop (loopDay from 1 to forecastDays).
ForecastStep ==
    /\ pc = "forecast"
    /\ \E scenario \in { [ day |-> sim.currentDay + loopDay ] @@ sim.scenario } :
       \E result \in { moveHerdOneDay(sim.copy, pos.fLat, pos.fLng,
                                       SeedsOf(sim.copy)[seedIdx].speed, scenario) } :
       LET newPredicted == Append(predicted, [lat |-> result.lat, lng |-> result.lng,
                                              day |-> sim.currentDay + loopDay])
           newLast == [ lastReason |-> result.reason, lastCsi |-> result.csi,
                        lastBand |-> result.band ]
       IN  IF loopDay + 1 <= sim.forecastDays
           THEN /\ pos' = [pos EXCEPT !.fLat = result.lat, !.fLng = result.lng]
                /\ predicted' = newPredicted
                /\ last' = newLast
                /\ loopDay' = loopDay + 1
                /\ UNCHANGED <<pc, seedIdx, trail, herds>>
           ELSE PushHerd(pos.lat, pos.lng, trail, newPredicted, newLast)
    /\ UNCHANGED <<csiVars, gridVars, sim, prevRun, usedLookups, riskVars, workerVars, costVars, queryVars>>

NextSim ==
    \/ SetEnvironmentGrid
    \/ SetConflictGrid
    \/ StartSimulation
    \/ TrailStep
    \/ ForecastStep

SpecSim == InitSim /\ [][NextSim]_vars

---------------------------------------------------------------------------
(* Risk detection: a caller holds a herd list, a base day and a scenario   *)
(* and calls detectRisks once.                                             *)

\* The largest herd list.
MaxHerds == 5

\* Herds as detectRisks reads them (lat, lng, predicted): at Bor; approaching
\* Bor from the north-east; near the Duk lowland farm with a one-day
\* forecast; on the Duk lowland farm with a three-day forecast.
HerdTracks ==
    << [ lat |-> 6200, lng |-> 31560,
         predicted |-> << [lat |-> 6210, lng |-> 31560], [lat |-> 6220, lng |-> 31560] >> ],
       [ lat |-> 6340, lng |-> 31680,
         predicted |-> << [lat |-> 6300, lng |-> 31640], [lat |-> 6240, lng |-> 31580] >> ],
       [ lat |-> 6960, lng |-> 31440,
         predicted |-> << [lat |-> 7000, lng |-> 31400] >> ],
       [ lat |-> 7100, lng |-> 31250,
         predicted |-> << [lat |-> 7100, lng |-> 31250], [lat |-> 7100, lng |-> 31250],
                          [lat |-> 7100, lng |-> 31260] >> ] >>

\* The tracks the k-th herd of a list may be on: each of the first three
\* herds is at Bor or on a track of its own, the others are at Bor.
TrackChoices(k) == IF k < Len(HerdTracks) THEN { 1, k + 1 } ELSE { 1 }

\* Herd ids: "H1", "H2", ... or ids that contain the dash the keys are joined
\* with: "A-B", "C", "A", "B-C", "D", ...
HerdIdOf(scheme, k) ==
    IF scheme = "plain" THEN << 72, 48 + k >>
    ELSE IF k = 1 THEN << 65, 45, 66 >>
    ELSE IF k = 2 THEN << 67 >>
    ELSE IF k = 3 THEN << 65 >>
    ELSE IF k = 4 THEN << 66, 45, 67 >>
    ELSE << 63 + k >>

HerdLists ==
    UNION { { [ k \in 1 .. n |->
                  [ id |-> HerdIdOf(scheme, k), lat |-> HerdTracks[c[k]].lat,
                    lng |-> HerdTracks[c[k]].lng,
                    predicted |-> HerdTracks[c[k]].predicted ] ]
              : c \in { f \in [1 .. n -> 1 .. Len(HerdTracks)] :
                          \A k \in 1 .. n : f[k] \in TrackChoices(k) } }
            : n \in 0 .. MaxHerds, scheme \in {"plain", "dashed"} }

\* A herd that reaches the Duk lowland farm on the third forecast day only.
LateTrack ==
    [ lat |-> 7500, lng |-> 31800,
      predicted |-> << [lat |-> 7450, lng |-> 31750], [lat |-> 7400, lng |-> 31700],
                       [lat |-> 7110, lng |-> 31260] >> ]

\* Herd lists with a three-day forecast: the herd on the farm and the late one.
LongForecastLists ==
    { << [ id |-> HerdIdOf("plain", 1), lat |-> HerdTracks[4].lat,
           lng |-> HerdTracks[4].lng, predicted |-> HerdTracks[4].predicted ],
         [ id |-> HerdIdOf("plain", 2), lat |-> LateTrack.lat, lng |-> LateTrack.lng,
           predicted |-> LateTrack.predicted ] >> }

\* The same two herds listed after a herd far away whose forecast is one
\* day long.
ShortFirstLists ==
    { << [ id |-> HerdIdOf("plain", 1), lat |-> HerdTracks[3].lat,
           lng |-> HerdTracks[3].lng, predicted |-> HerdTracks[3].predicted ],
         [ id |-> HerdIdOf("plain", 2), lat |-> HerdTracks[4].lat,
           lng |-> HerdTracks[4].lng, predicted |-> HerdTracks[4].predicted ],
         [ id |-> HerdIdOf("plain", 3), lat |-> LateTrack.lat, lng |-> LateTrack.lng,
           predicted |-> LateTrack.predicted ] >> }

\* Two herds that meet in the south-west, far from villages, farms and
\* conflict zones.
RemoteLists ==
    { << [ id |-> HerdIdOf("plain", 1), lat |-> 5800, lng |-> 30400,
           predicted |-> << [lat |-> 5800, lng |-> 30400] >> ],
         [ id |-> HerdIdOf("plain", 2), lat |-> 5850, lng |-> 30400,
           predicted |-> << [lat |-> 5810, lng |-> 30400] >> ] >> }

\* Base days in the dry season, the transition and the wet season.
RiskBaseDays == { 0, 80, 150 }

RiskInputs ==
    [ herds : HerdLists \cup LongForecastLists \cup ShortFirstLists \cup RemoteLists,
      baseDay : RiskBaseDays,
      scenario : SimScenarios ]

ConflictLookups ==
    { NullLookup }
        \cup { [ loaded |-> TRUE,
                 map |-> LookupOf(grid.cellAggregates, "incidentsPerMonth",
                                  Len(grid.cellAggregates)) ] : grid \in ConflictGrids }

InitRisk ==
    /\ CsiIdle
    /\ RunIdle
    /\ gridLookup = NullLookup
    /\ conflictLookup \in ConflictLookups
    /\ riskIn \in RiskInputs
    /\ generated = << >>
    /\ risk = NoValues
    /\ WorkersIdle
    /\ CostIdle
    /\ QueryIdle

\* detectRisks(herds, baseDay, scenario) is called and returns.
DetectRisks ==
    /\ risk = NoValues
    /\ \E acc \in { detectLoops(riskIn.herds, riskIn.baseDay, riskIn.scenario) } :
          /\ generated' = acc.alerts
          /\ risk' = finishRisks(acc)
    /\ UNCHANGED <<csiVars, gridVars, simVars, riskIn, workerVars, costVars, queryVars>>

NextRisk == DetectRisks
SpecRisk == InitRisk /\ [][NextRisk]_vars

---------------------------------------------------------------------------
(* The page (src/app/page.tsx): allHerds = simulateHerds(baseDay,          *)
(* FORECAST_DAYS, scenario), then detectRisks(allHerds, baseDay, scenario). *)

\* The herds as detectRisks reads them: the id "Hk" of the k-th seed as the
\* sequence of its character codes.
HerdArgs(herdList) ==
    [ k \in 1 .. Len(herdList) |-> [ herdList[k] EXCEPT !.id = << 72 >> \o Digits(k) ] ]

InitApp == InitSim

\* A step of the simulation while no risks have been computed.
Simulate == risk = NoValues /\ NextSim

\* A plausible slip: futurePositions written into the herds themselves, so
\* that each herd is left at its last predicted position.
DetectRisksOnHerds_moving ==
    /\ pc = "done"
    /\ risk = NoValues
    /\ riskIn' = [ herds |-> HerdArgs(herds), baseDay |-> sim.currentDay,
                   scenario |-> sim.scenario ]
    /\ \E acc \in { detectLoops(HerdArgs(herds), sim.currentDay, sim.scenario) } :
          /\ generated' = acc.alerts
          /\ risk' = finishRisks(acc)
    /\ herds' = [ k \in 1 .. Len(herds) |->
                    IF herds[k].predicted = << >> THEN herds[k]
                    ELSE [ herds[k] EXCEPT
                             !.lat = herds[k].predicted[Len(herds[k].predicted)].lat,
                             !.lng = herds[k].predicted[Len(herds[k].predicted)].lng ] ]
    /\ UNCHANGED <<csiVars, gridVars, pc, sim, seedIdx, pos, loopDay, trail, predicted,
                   last, prevRun, usedLookups, workerVars, costVars, queryVars>>

\* detectRisks(allHerds, baseDay, scenario) is called and returns.
DetectRisksOnHerds ==
    /\ pc = "done"
    /\ risk = NoValues
    /\ riskIn' = [ herds |-> HerdArgs(herds), baseDay |-> sim.currentDay,
                   scenario |-> sim.scenario ]
    /\ \E acc \in { detectLoops(HerdArgs(herds), sim.currentDay, sim.scenario) } :
          /\ generated' = acc.alerts
          /\ risk' = finishRisks(acc)
    /\ UNCHANGED <<csiVars, gridVars, simVars, workerVars, costVars, queryVars>>

NextApp ==
    \/ Simulate
    \/ DetectRisksOnHerds

SpecApp == InitApp /\ [][NextApp]_vars

---------------------------------------------------------------------------
(* simulateHerds called once on a day early in the season, a week in, or   *)
(* later, where the trail is cut to seven days of history.                 *)

HistoryDays == {0, 3, 7, 9}

InitHistory == CsiIdle /\ SimIdle

StartHistorySimulation ==
    \E copy \in {1, 2}, currentDay \in HistoryDays, forecastDays \in {0, MaxForecastDays} :
        LET run == [ copy |-> copy, currentDay |-> currentDay,
                     forecastDays |-> forecastDays, scenario |-> The(SimScenarios) ]
        IN  /\ pc = "idle"
            /\ sim' = run
            /\ herds' = << >>
            /\ prevRun' = NoRun
            /\ usedLookups' = [ gridLookup |-> gridLookup,
                                conflictLookup |-> conflictLookup ]
            /\ BeginHerd(1, run)
            /\ UNCHANGED <<csiVars, gridVars, riskVars, workerVars, costVars, queryVars>>

NextHistory ==
    \/ StartHistorySimulation
    \/ TrailStep
    \/ ForecastStep

SpecHistory == InitHistory /\ [][NextHistory]_vars

---------------------------------------------------------------------------
(* The per-seed loop bodies of simulateHerds run by concurrent workers,    *)
(* one worker per seed, their day steps interleaved in any order and       *)
(* without locking: the grid setters may run between any two day steps.    *)

\* The seeds whose loop bodies are run by workers (the two Bor seeds).
WorkerSeeds == { 1, 2 }

\* The head of the loop body for seed k: lat, lng, trail and the first day.
beginWorker(copy, k, currentDay) ==
    [ phase |-> "trail", lat |-> SeedsOf(copy)[k].baseLat, lng |-> SeedsOf(copy)[k].baseLng,
      fLat |-> 0, fLng |-> 0, d |-> currentDay - Min(currentDay, 7),
      trail |-> << >>, predicted |-> << >>, last |-> NoLast ]

\* A plausible slip: the loop counter d declared once for all loop bodies,
\* so that a day step reads the furthest day any worker has reached.
workerStep_sharedDay(run, k, w) ==
    The({ The({
        IF w.phase = "trail"
        THEN IF w.d + 1 <= run.currentDay
             THEN [ w EXCEPT !.lat = r.lat, !.lng = r.lng, !.d = w.d + 1,
                             !.trail = Append(w.trail, [lat |-> r.lat, lng |-> r.lng,
                                                        day |-> w.d]) ]
             ELSE [ w EXCEPT !.lat = r.lat, !.lng = r.lng, !.fLat = r.lat, !.fLng = r.lng,
                             !.d = 1,
                             !.phase = IF run.forecastDays >= 1 THEN "forecast" ELSE "done",
                             !.trail = Append(w.trail, [lat |-> r.lat, lng |-> r.lng,
                                                        day |-> w.d]) ]
        ELSE [ w EXCEPT !.fLat = r.lat, !.fLng = r.lng, !.d = w.d + 1,
                        !.phase = IF w.d + 1 <= run.forecastDays THEN "forecast" ELSE "done",
                        !.predicted = Append(w.predicted,
                                             [lat |-> r.lat, lng |-> r.lng,
                                              day |-> run.currentDay + w.d]),
                        !.last = [ lastReason |-> r.reason, lastCsi |-> r.csi,
                                   lastBand |-> r.band ] ]
        : r \in { IF w.phase = "trail"
                  THEN moveHerdOneDay(run.copy, w.lat, w.lng, SeedsOf(run.copy)[k].speed,
                                      [ day |-> shared ] @@ run.scenario)
                  ELSE moveHerdOneDay(run.copy, w.fLat, w.fLng, SeedsOf(run.copy)[k].speed,
                                      [ day |-> run.currentDay + shared ] @@ run.scenario) } })
        : shared \in { CHOOSE m \in { workers[j].d : j \in DOMAIN workers } :
                           \A j \in DOMAIN workers : workers[j].d <= m } })

\* One iteration of the trail loop or of the forecast loop of the body for
\* seed k, on its local variables w.
workerStep(run, k, w) ==
    The({
        IF w.phase = "trail"
        THEN IF w.d + 1 <= run.currentDay
             THEN [ w EXCEPT !.lat = r.lat, !.lng = r.lng, !.d = w.d + 1,
                             !.trail = Append(w.trail, [lat |-> r.lat, lng |-> r.lng,
                                                        day |-> w.d]) ]
             ELSE [ w EXCEPT !.lat = r.lat, !.lng = r.lng, !.fLat = r.lat, !.fLng = r.lng,
                             !.d = 1,
                             !.phase = IF run.forecastDays >= 1 THEN "forecast" ELSE "done",
                             !.trail = Append(w.trail, [lat |-> r.lat, lng |-> r.lng,
                                                        day |-> w.d]) ]
        ELSE [ w EXCEPT !.fLat = r.lat, !.fLng = r.lng, !.d = w.d + 1,
                        !.phase = IF w.d + 1 <= run.forecastDays THEN "forecast" ELSE "done",
                        !.predicted = Append(w.predicted,
                                             [lat |-> r.lat, lng |-> r.lng,
                                              day |-> run.currentDay + w.d]),
                        !.last = [ lastReason |-> r.reason, lastCsi |-> r.csi,
                                   lastBand |-> r.band ] ]
        : r \in { IF w.phase = "trail"
                  THEN moveHerdOneDay(run.copy, w.lat, w.lng, SeedsOf(run.copy)[k].speed,
                                      [ day |-> w.d ] @@ run.scenario)
                  ELSE moveHerdOneDay(run.copy, w.fLat, w.fLng, SeedsOf(run.copy)[k].speed,
                                      [ day |-> run.currentDay + w.d ] @@ run.scenario) } })

\* The trail loop or the forecast loop of simulateHerds run in sequence from
\* (lat, lng) over the days d .. lastDay: the points it pushes.
RECURSIVE WalkDays(_, _, _, _, _, _, _)
WalkDays(copy, lat, lng, speedKmDay, scenario, d, lastDay) ==
    IF d > lastDay THEN << >>
    ELSE The({ << [lat |-> r.lat, lng |-> r.lng, day |-> d] >>
                   \o WalkDays(copy, r.lat, r.lng, speedKmDay, scenario, d + 1, lastDay)
               : r \in { moveHerdOneDay(copy, lat, lng, speedKmDay,
                                        [ day |-> d ] @@ scenario) } })

\* The trail and the forecast the loop body of simulateHerds computes for
\* seed k when it runs alone, from start to end.
sequentialHerd(run, k) ==
    The({ [ trail |-> tr,
            predicted |-> WalkDays(run.copy, tr[Len(tr)].lat, tr[Len(tr)].lng,
                                   SeedsOf(run.copy)[k].speed, run.scenario,
                                   run.currentDay + 1, run.currentDay + run.forecastDays) ]
          : tr \in { WalkDays(run.copy, SeedsOf(run.copy)[k].baseLat,
                              SeedsOf(run.copy)[k].baseLng, SeedsOf(run.copy)[k].speed,
                              run.scenario, run.currentDay - Min(run.currentDay, 7),
                              run.currentDay) } })

AllWorkersDone ==
    workers # NoWorkers /\ \A k \in DOMAIN workers : workers[k].phase = "done"

InitWorkers == CsiIdle /\ SimIdle

\* simulateHerds(currentDay, forecastDays, scenario) is called with its loop
\* bodies handed to the workers.
StartWorkers ==
    \E copy \in {1, 2}, currentDay \in 0 .. MaxCurrentDay,
       forecastDays \in {0, MaxForecastDays}, scenario \in SimScenarios :
        /\ workers = NoWorkers \/ AllWorkersDone
        /\ sim' = [ copy |-> copy, currentDay |-> currentDay,
                    forecastDays |-> forecastDays, scenario |-> scenario ]
        /\ usedLookups' = [ gridLookup |-> gridLookup, conflictLookup |-> conflictLookup ]
        /\ workers' = [ k \in WorkerSeeds |-> beginWorker(copy, k, currentDay) ]
        /\ UNCHANGED <<csiVars, gridVars, pc, seedIdx, pos, loopDay, trail, predicted, last,
                       herds, prevRun, riskVars, costVars, queryVars>>

\* A worker runs one day step of its loop body.
WorkerStep ==
    \E k \in WorkerSeeds :
        /\ workers # NoWorkers
        /\ workers[k].phase # "done"
        /\ workers' = [ workers EXCEPT ![k] = workerStep(sim, k, workers[k]) ]
        /\ UNCHANGED <<csiVars, gridVars, simVars, riskVars, costVars, queryVars>>

NextWorkers ==
    \/ SetEnvironmentGrid
    \/ SetConflictGrid
    \/ StartWorkers
    \/ WorkerStep

SpecWorkers == InitWorkers /\ [][NextWorkers]_vars

---------------------------------------------------------------------------
(* Claims                                                                  *)

\* C1: for every FactorValues input, each of the eight values returned by
\* computeFactorIndices lies in [0,1] and computeCSI of them lies in [0,1].
C1_IndicesAndCsiInUnitRange ==
    indices # NoValues =>
        /\ DOMAIN indices = { FactorKeys[k] : k \in 1 .. Len(FactorKeys) }
        /\ \A key \in DOMAIN indices : indices[key] >= 0 /\ indices[key] <= One
        /\ csi >= 0 /\ csi <= CsiOne

\* C1 witness: a measurement with every factor above its upper band boundary
\* has been indexed.
C1_Witness ==
    /\ indices # NoValues
    /\ values.rainfallMmDay > 20000 /\ values.ndvi > 500
    /\ values.floodExtentPct > 10000 /\ values.conflictIncidentsPerMonth > 5000
    /\ indices.rainfall = 300 /\ indices.ndvi = 1000
    /\ csi > 0

\* C7: getMovementLikelihood maps every csi in [0,1] to exactly one band:
\* low for csi < 0.4, moderate for 0.4 <= csi <= 0.7, high for csi > 0.7.
C7_ThreeContiguousBands ==
    likelihood # NoValues =>
        /\ likelihood.band \in {"low", "moderate", "high"}
        /\ (likelihood.band = "low") <=> (csiProbe < 400000)
        /\ (likelihood.band = "moderate") <=> (csiProbe >= 400000 /\ csiProbe <= 700000)
        /\ (likelihood.band = "high") <=> (csiProbe > 700000)

\* C7 witness: the boundary value 0.7 itself has been classified (moderate).
C7_Witness ==
    likelihood # NoValues /\ csiProbe = 700000 /\ likelihood.band = "moderate"

\* Every position recorded so far in the running or finished simulation.
RecordedPositions ==
    { trail[k] : k \in DOMAIN trail } \cup { predicted[k] : k \in DOMAIN predicted }
        \cup UNION { { herds[h].trail[k] : k \in DOMAIN herds[h].trail }
                         \cup { herds[h].predicted[k] : k \in DOMAIN herds[h].predicted }
                     : h \in DOMAIN herds }

InsideMargin(p) ==
    /\ p.lat >= SOUTH_SUDAN_BOUNDS.south + BoundsMargin
    /\ p.lat <= SOUTH_SUDAN_BOUNDS.north - BoundsMargin
    /\ p.lng >= SOUTH_SUDAN_BOUNDS.west + BoundsMargin
    /\ p.lng <= SOUTH_SUDAN_BOUNDS.east - BoundsMargin

\* C2: every position simulateHerds records in a trail or predicted list lies
\* inside the bounding box inset by the 0.2 degree margin.
C2_PositionsInsideMargin ==
    \A p \in RecordedPositions : InsideMargin(p)

\* The same for the first copy of the engine alone (the Jonglei seeds).
C2_FirstCopyInsideMargin ==
    (sim # NoRun /\ sim.copy = 1) => \A p \in RecordedPositions : InsideMargin(p)

\* C2 counterexample state: a herd of the second copy, seeded outside the
\* bounds, has recorded its stay-in-place position.
C2_SeedOutsideStays ==
    /\ sim # NoRun /\ sim.copy = 2
    /\ \E p \in RecordedPositions : ~InsideMargin(p)

ReturnedAlerts == { risk.alerts[m] : m \in 1 .. Len(risk.alerts) }
GeneratedAlerts == { generated[m] : m \in 1 .. Len(generated) }
DedupedAlerts ==
    LET byKey == byKeyOf(generated)
    IN  { byKey[m].value : m \in 1 .. Len(byKey) }
HerdIndex(id) == CHOOSE k \in 1 .. Len(riskIn.herds) : riskIn.herds[k].id = id
ForecastOffsets == 1 .. forecastDaysOf(riskIn.herds)
HerdPairs == { p \in (1 .. Len(riskIn.herds)) \X (1 .. Len(riskIn.herds)) : p[1] < p[2] }

\* The positions of herds i and j for day offset d, their distance, and the
\* threshold profile and triggers at their midpoint on that day.
PairFacts(i, j, d) ==
    LET dayScenario == [ day |-> riskIn.baseDay + d ] @@ riskIn.scenario
        fp == futurePositions(riskIn.herds, d)
        midLat == (fp[i].lat + fp[j].lat) \div 2
        midLng == (fp[i].lng + fp[j].lng) \div 2
        profile == getRiskThresholdProfile(midLat, midLng, dayScenario)
        t == triggersAt(midLat, midLng, profile, dayScenario)
    IN  [ ids |-> { fp[i].id, fp[j].id },
          key |-> pairKey(<< fp[i].id, fp[j].id >>),
          same |-> fp[i].lat = fp[j].lat /\ fp[i].lng = fp[j].lng,
          dist |-> distanceKm(fp[i].lat, fp[i].lng, fp[j].lat, fp[j].lng),
          convergenceKm |-> profile.convergenceKm,
          t |-> t,
          count |-> triggerCount(t) ]
AlertFacts(x) == PairFacts(HerdIndex(x.herdIds[1]), HerdIndex(x.herdIds[2]), x.daysAway)
PairOf(x) == { x.herdIds[1], x.herdIds[2] }
Severe(x) == x.riskLevel \in {"high", "medium"}

\* a goes strictly before b in the order (severity, then daysAway).
RanksBefore(a, b) ==
    \/ riskOrder(a.riskLevel) < riskOrder(b.riskLevel)
    \/ (a.riskLevel = b.riskLevel /\ a.daysAway < b.daysAway)

\* C3: every alert of detectRisks, generated or returned, is for a pair and
\* day whose distance is strictly below the convergence threshold resolved at
\* the midpoint and at whose midpoint at least two of the four triggers
\* fired; so no alert exists for a pair and day at or beyond the threshold or
\* with fewer than two triggers.
C3_AlertsConvergeWithTwoTriggers ==
    risk # NoValues =>
        \A x \in ReturnedAlerts \cup GeneratedAlerts :
            LET f == AlertFacts(x)
            IN  /\ f.dist * 1000 < f.convergenceKm
                /\ f.count >= 2

\* C3 witness: an alert with exactly two triggers was returned while another
\* converging pair with a single trigger got none.
C3_Witness ==
    /\ risk # NoValues
    /\ \E x \in ReturnedAlerts : AlertFacts(x).count = 2
    /\ \E p \in HerdPairs, d \in ForecastOffsets :
          LET f == PairFacts(p[1], p[2], d)
          IN  /\ f.dist * 1000 < f.convergenceKm
              /\ f.count = 1
              /\ ~ \E g \in GeneratedAlerts : PairOf(g) = f.ids /\ g.daysAway = d

\* C4: the returned alerts hold at most one alert per unordered pair of herd
\* ids, and it is, among the alerts generated for the pair on all forecast
\* days, of highest severity and, among those, of smallest daysAway.
C4_OneBestAlertPerPair ==
    risk # NoValues =>
        /\ \A m, n \in 1 .. Len(risk.alerts) :
              PairOf(risk.alerts[m]) = PairOf(risk.alerts[n]) => m = n
        /\ \A x \in ReturnedAlerts : \A g \in GeneratedAlerts :
              PairOf(g) = PairOf(x) => ~RanksBefore(g, x)

\* C4 witness: a returned alert replaced an earlier-day, less severe alert
\* generated for the same pair.
C4_Witness ==
    /\ risk # NoValues
    /\ \E x \in ReturnedAlerts : \E g \in GeneratedAlerts :
          /\ PairOf(g) = PairOf(x)
          /\ g.daysAway < x.daysAway
          /\ riskOrder(x.riskLevel) < riskOrder(g.riskLevel)

\* C5: the returned alert list has at most six alerts, is ordered by severity
\* (high, medium, low) and then daysAway ascending, and no deduplicated alert
\* cut by the cap ranks strictly before a returned one.
C5_SortedTopSix ==
    risk # NoValues =>
        /\ Len(risk.alerts) <= 6
        /\ \A m, n \in 1 .. Len(risk.alerts) :
              m < n => ~RanksBefore(risk.alerts[n], risk.alerts[m])
        /\ ReturnedAlerts \subseteq DedupedAlerts
        /\ \A c \in DedupedAlerts \ ReturnedAlerts : \A x \in ReturnedAlerts :
              ~RanksBefore(c, x)

\* C5 witness: more than six pairs alerted, six alerts were returned, the
\* sort moved a later-generated alert to the front, and an alert that ranks
\* strictly after the sixth was cut.
C5_Witness ==
    /\ risk # NoValues
    /\ Cardinality(DedupedAlerts) > 6
    /\ Len(risk.alerts) = 6
    /\ risk.alerts[1] # generated[1]
    /\ \E c \in DedupedAlerts \ ReturnedAlerts : RanksBefore(risk.alerts[6], c)

\* C8: the riskLevel of every generated alert is high if the pair distance is
\* below 0.3 x the convergence threshold with at least three triggers, else
\* medium if it is below 0.5 x the threshold with at least two, else low.
C8_RiskLevelRule ==
    risk # NoValues =>
        \A x \in GeneratedAlerts \cup ReturnedAlerts :
            LET f == AlertFacts(x)
            IN  x.riskLevel =
                    IF f.dist * 10000 < 3 * f.convergenceKm /\ f.count >= 3 THEN "high"
                    ELSE IF f.dist * 10000 < 5 * f.convergenceKm /\ f.count >= 2
                    THEN "medium"
                    ELSE "low"

\* C8 witness: one call generated a high, a medium and a low alert, the
\* medium one with three triggers at 0.3 to 0.5 of the threshold.
C8_Witness ==
    /\ risk # NoValues
    /\ \E x \in GeneratedAlerts : x.riskLevel = "high"
    /\ \E x \in GeneratedAlerts : x.riskLevel = "low"
    /\ \E x \in GeneratedAlerts :
          /\ x.riskLevel = "medium"
          /\ AlertFacts(x).count >= 3
          /\ AlertFacts(x).dist * 10000 >= 3 * AlertFacts(x).convergenceKm

\* Two herds share a predicted coordinate on day offset d, and resource
\* scarcity and village proximity both hold there.
C9_Case(i, j, d) ==
    LET f == PairFacts(i, j, d)
    IN  f.same /\ f.t.resourceScarcity /\ f.t.nearVillage

C10_CategoryRule ==
    risk # NoValues =>
        \A x \in GeneratedAlerts \cup ReturnedAlerts :
            LET t == AlertFacts(x).t
            IN  /\ x.riskCategory \in {"community_protection", "resource_tension"}
                /\ x.riskCategory = "community_protection"
                       <=> (t.nearVillage \/ t.nearFarm \/ t.hasHistory)
                /\ x.triggers.nearVillage = t.nearVillage
                /\ x.triggers.nearFarmland = t.nearFarm
                /\ x.triggers.historicalConflict = t.hasHistory

\* C10 witness: an alert whose only community trigger is farmland.
C10_Witness ==
    /\ risk # NoValues
    /\ \E x \in ReturnedAlerts :
          /\ x.triggers.nearFarmland
          /\ ~x.triggers.nearVillage /\ ~x.triggers.historicalConflict
          /\ x.riskCategory = "community_protection"

\* C11: every alert returned by detectRisks carries exactly two suggested
\* actions: a redirect for the first herd of its pair and a delay for the
\* second with delayDays = min(daysAway, 2); the two herds are distinct.
C11_TwoActionsPerAlert ==
    risk # NoValues =>
        \A x \in ReturnedAlerts :
            /\ Len(x.suggestedActions) = 2
            /\ x.suggestedActions[1].type = "redirect"
            /\ x.suggestedActions[1].herdId = x.herdIds[1]
            /\ x.suggestedActions[2].type = "delay"
            /\ x.suggestedActions[2].herdId = x.herdIds[2]
            /\ x.suggestedActions[2].delayDays = (IF x.daysAway < 2 THEN x.daysAway ELSE 2)
            /\ x.suggestedActions[1].herdId # x.suggestedActions[2].herdId
            /\ x.daysAway \in ForecastOffsets

\* C11 witness: an alert three days away was returned with a delay of two days.
C11_Witness ==
    /\ risk # NoValues
    /\ \E x \in ReturnedAlerts :
          /\ x.daysAway = 3
          /\ x.suggestedActions[2].delayDays = 2
          /\ x.suggestedActions[1].type = "redirect"

\* The number of returned zones and of generated alerts that carry an id.
ZonesWithId(id) ==
    Cardinality({ k \in 1 .. Len(risk.riskZones) : risk.riskZones[k].alertId = id })
GeneratedWithId(id) ==
    Cardinality({ k \in 1 .. Len(generated) : generated[k].id = id })

RouteOrigin(r) ==
    LET place == IF r.type = "redirect" THEN 1 ELSE 2
        hits == { m \in 1 .. Len(generated) : generated[m].herdIds[place] = r.herdId }
    IN  generated[CHOOSE m \in hits : \A n \in hits : m <= n]
ReturnedRoutes == { risk.alternativeRoutes[k] : k \in 1 .. Len(risk.alternativeRoutes) }

\* C13: every alternative route returned by detectRisks was generated for an
\* alert that is in the returned alerts list: none stems from an alert
\* removed by deduplication or by the cap of six.
C13_RoutesOfReturnedAlerts ==
    risk # NoValues =>
        \A r \in ReturnedRoutes : RouteOrigin(r) \in ReturnedAlerts

\* What the filter does ensure: the first generated alert that names the
\* herd of a returned route, in either place, is a returned alert.
C13_RoutesOfHerdsFirstAlert ==
    risk # NoValues =>
        \A r \in ReturnedRoutes :
            \E x \in ReturnedAlerts : x.id = firstAlertIdOf(generated, r.herdId)

\* C13 counterexample state: with plain herd ids, a returned route stems
\* from an alert that is not returned.
C13_RouteOfRemovedAlert ==
    /\ risk # NoValues
    /\ \A k \in 1 .. Len(riskIn.herds) : riskIn.herds[k].id = HerdIdOf("plain", k)
    /\ \E r \in ReturnedRoutes : RouteOrigin(r) \notin ReturnedAlerts

\* The actions and routes pushed by the loops for the generated alerts.
GeneratedActions ==
    UNION { { g.suggestedActions[1], g.suggestedActions[2] } : g \in GeneratedAlerts }

\* C14: the suggestedActions list of the result holds at most one action per
\* (herdId, type), and its alternativeRoutes list at most one route per
\* (herdId, type).
C14_OnePerHerdAndType ==
    risk # NoValues =>
        /\ \A m, n \in 1 .. Len(risk.suggestedActions) :
              (/\ risk.suggestedActions[m].herdId = risk.suggestedActions[n].herdId
               /\ risk.suggestedActions[m].type = risk.suggestedActions[n].type) => m = n
        /\ \A m, n \in 1 .. Len(risk.alternativeRoutes) :
              (/\ risk.alternativeRoutes[m].herdId = risk.alternativeRoutes[n].herdId
               /\ risk.alternativeRoutes[m].type = risk.alternativeRoutes[n].type) => m = n
        /\ \A k \in 1 .. Len(risk.suggestedActions) :
              risk.suggestedActions[k] \in GeneratedActions

\* C14 witness: a herd was given a redirect in two generated alerts with
\* different targets, and one redirect action and one redirect route of it
\* were returned.
C14_Witness ==
    /\ risk # NoValues
    /\ \E g, h \in GeneratedAlerts :
          /\ g.herdIds[1] = h.herdIds[1]
          /\ g.suggestedActions[1].targetLat # h.suggestedActions[1].targetLat
          /\ \E k \in 1 .. Len(risk.suggestedActions) :
                /\ risk.suggestedActions[k].herdId = g.herdIds[1]
                /\ risk.suggestedActions[k].type = "redirect"
          /\ \E k \in 1 .. Len(risk.alternativeRoutes) :
                /\ risk.alternativeRoutes[k].herdId = g.herdIds[1]
                /\ risk.alternativeRoutes[k].type = "redirect"

\* C16: for a herd list of length 0 or 1, detectRisks returns empty alerts,
\* riskZones, alternativeRoutes and suggestedActions.
C16_NoPairNoRisk ==
    (risk # NoValues /\ Len(riskIn.herds) <= 1) =>
        /\ risk.alerts = << >>
        /\ risk.riskZones = << >>
        /\ risk.alternativeRoutes = << >>
        /\ risk.suggestedActions = << >>
        /\ generated = << >>

\* C16 witness: detectRisks has returned for a single herd that has a
\* forecast, at a place where two herds would alert.
C16_Witness ==
    /\ risk # NoValues
    /\ Len(riskIn.herds) = 1
    /\ forecastDaysOf(riskIn.herds) = 2
    /\ risk.alerts = << >>
    /\ triggerCount(PairFacts(1, 1, 1).t) >= 2

\* The day step that is about to run: the position it starts from and its
\* scenario day.
StepFrom ==
    IF pc = "trail" THEN [ lat |-> pos.lat, lng |-> pos.lng, day |-> loopDay ]
    ELSE [ lat |-> pos.fLat, lng |-> pos.fLng, day |-> sim.currentDay + loopDay ]

\* Each of the eight jittered candidates of a day step from (lat, lng) lies
\* outside the bounds inset by the margin.
NoCandidateInside(copy, lat, lng, speedKmDay, scenario) ==
    LET v == FactorValuesFor(copy, lat, lng, scenario)
        band == getMovementLikelihood(computeCSI(computeFactorIndices(v))).band
        stepDeg == KmThisDay(band, lat, lng, speedKmDay, scenario) \div 111
    IN  \A i \in 0 .. 7 : ~InsideMargin(CandidateAt(i, lat, lng, stepDeg, scenario))

\* The point the step records and the reason it leaves, read after the step
\* (in the herd just pushed, or in the running trail or forecast).
RecordedByStep ==
    IF Len(herds') > Len(herds)
    THEN LET h == herds'[Len(herds')]
         IN  IF pc = "trail" THEN h.trail[Len(h.trail)] ELSE h.predicted[Len(h.predicted)]
    ELSE IF pc = "trail" THEN trail'[Len(trail')] ELSE predicted'[Len(predicted')]
ReasonOfStep ==
    IF Len(herds') > Len(herds) THEN herds'[Len(herds')].decisionReason
    ELSE last'.lastReason

\* C15: a day step of moveHerdOneDay whose eight jittered candidates all fall
\* outside the margin-inset bounds returns its input position unchanged, and
\* its rationale names "no viable move".
C15_StaysWhenNoCandidate ==
    [][ (/\ pc \in {"trail", "forecast"}
         /\ NoCandidateInside(sim.copy, StepFrom.lat, StepFrom.lng,
                               SeedsOf(sim.copy)[seedIdx].speed,
                               [ day |-> StepFrom.day ] @@ sim.scenario))
        => /\ RecordedByStep.lat = StepFrom.lat
           /\ RecordedByStep.lng = StepFrom.lng
           /\ RecordedByStep.day = StepFrom.day
           /\ pc = "forecast" =>
                  /\ ReasonOfStep.dominantFactor = "no viable move (bounds)"
                  /\ ReasonOfStep.distanceKm = 0 ]_vars

\* C15 witness: the first herd of the second copy, seeded where no candidate
\* is inside, has been simulated with a forecast: every recorded point is
\* its seed position and the reason is "no viable move".
C15_Witness ==
    /\ sim # NoRun /\ sim.copy = 2 /\ sim.forecastDays >= 1
    /\ herds # << >>
    /\ NoCandidateInside(2, HERD_SEEDS_2[1].baseLat, HERD_SEEDS_2[1].baseLng,
                          HERD_SEEDS_2[1].speed,
                          [ day |-> sim.currentDay + 1 ] @@ sim.scenario)
    /\ \A k \in DOMAIN herds[1].predicted :
          /\ herds[1].predicted[k].lat = HERD_SEEDS_2[1].baseLat
          /\ herds[1].predicted[k].lng = HERD_SEEDS_2[1].baseLng
    /\ herds[1].predicted # << >>
    /\ herds[1].decisionReason.dominantFactor = "no viable move (bounds)"

WorkersAgreeWithSequential ==
    \A k \in DOMAIN workers :
        \E alone \in { sequentialHerd(sim, k) } :
            /\ workers[k].trail = alone.trail
            /\ workers[k].predicted = alone.predicted

GridsAsAtStart ==
    /\ usedLookups.gridLookup = gridLookup
    /\ usedLookups.conflictLookup = conflictLookup

BalancedClassified ==
    values \in BalancedMeasurements /\ likelihood # NoValues

C19_BalancedHigh ==
    /\ BalancedClassified
    /\ values.evapotranspirationMmDay <= 5000
    /\ likelihood.band = "high"

\* C20: a measurement with 6 conflict incidents a month and 15% flood extent
\* gets a strictly larger path cost from evaluateCandidate than the same
\* measurement with no conflict and no flood.
C20_StressCostsMore ==
    (costs # NoValues /\ costs.of \in StressedMeasurements) =>
        costs.given.cost > costs.calm.cost

\* C20 witness: both candidates of a stressed measurement have been
\* evaluated, the calm one with the better CSI and the lower cost.
C20_Witness ==
    /\ costs # NoValues
    /\ costs.of \in StressedMeasurements
    /\ costs.of.conflictIncidentsPerMonth = 6000 /\ costs.of.floodExtentPct = 15000
    /\ costs.calm.csi > costs.given.csi
    /\ costs.given.cost > costs.calm.cost

\* The step replaces exactly one factor index by a larger value.
OneIndexRaised ==
    \E key \in DOMAIN FACTOR_RANKS :
        /\ indices'[key] > indices[key]
        /\ \A other \in DOMAIN FACTOR_RANKS \ { key } : indices'[other] = indices[other]

\* C21: computeCSI is monotonically non-decreasing in each factor index:
\* when one index is raised and the others are kept, the CSI of the new
\* index set is greater than or equal to the CSI of the old one.
C21_CsiMonotone ==
    [][OneIndexRaised => csi' >= csi]_vars

\* C21 witness: the lowest-ranked index has been raised above the others,
\* which are all at 0.5, and the CSI is strictly inside (0.5, 1).
C21_Witness ==
    /\ indices # NoValues /\ values = NoValues /\ costs = NoValues /\ likelihood = NoValues
    /\ indices.landSurfaceTemp = 1000
    /\ \A key \in DOMAIN FACTOR_RANKS \ { "landSurfaceTemp" } : indices[key] = 500
    /\ csi > 500000 /\ csi < CsiOne

\* The likelihood record of the CSI at the position the next day step starts
\* from, and the travel budget moveHerdOneDay derives there.
LikelihoodAtStep ==
    getMovementLikelihood(computeCSI(computeFactorIndices(
        FactorValuesFor(sim.copy, StepFrom.lat, StepFrom.lng,
                        [ day |-> StepFrom.day ] @@ sim.scenario))))
BudgetAtStep ==
    KmThisDay(LikelihoodAtStep.band, StepFrom.lat, StepFrom.lng,
              SeedsOf(sim.copy)[seedIdx].speed, [ day |-> StepFrom.day ] @@ sim.scenario)

\* C22: on every simulated day the travel budget kmThisDay lies within the
\* range [moveKmMin, moveKmMax] getMovementLikelihood assigns to the band of
\* the herd's current CSI.
C22_BudgetInBandRange ==
    pc \in {"trail", "forecast"} =>
        /\ BudgetAtStep >= LikelihoodAtStep.moveKmMin
        /\ BudgetAtStep <= LikelihoodAtStep.moveKmMax

\* C22: what holds of the budget: 2 to 5 km in the high band, 5 to 20 km and
\* at most the herd's speed in the moderate band, and 1.2 times the herd's
\* speed (18 to 27.6 km, never the 50 km of the low range) in the low band.
C22_BudgetByBand ==
    pc \in {"trail", "forecast"} =>
        IF LikelihoodAtStep.band = "low"
        THEN /\ BudgetAtStep = SeedsOf(sim.copy)[seedIdx].speed * 1200
             /\ BudgetAtStep < LikelihoodAtStep.moveKmMin
        ELSE /\ BudgetAtStep >= LikelihoodAtStep.moveKmMin
             /\ BudgetAtStep <= LikelihoodAtStep.moveKmMax

\* C22: a herd of the first copy is about to make a day step from a place
\* in the low band.
C22_LowBandStep ==
    /\ pc \in {"trail", "forecast"}
    /\ sim.copy = 1
    /\ LikelihoodAtStep.band = "low"

\* The ten fields of a FactorValues measurement.
FactorValueFields ==
    { "rainfallMmDay", "ndvi", "soilMoisturePct", "waterExtentPct",
      "evapotranspirationMmDay", "landSurfaceTempC", "floodExtentPct",
      "distToWaterKm", "elevationAboveLocalM", "conflictIncidentsPerMonth" }

\* The environment lookup holds no cell at the snapped key of (lat, lng) nor
\* at any of its eight neighbouring keys.
NoCellNear(lookup, lat, lng) ==
    \/ ~lookup.loaded
    \/ \A a \in {0 - 1, 0, 1}, b \in {0 - 1, 0, 1} :
           << RoundDiv(lat, 100) + a, RoundDiv(lng, 100) + b >> \notin DOMAIN lookup.map

\* C23: after any sequence of grid loads, getFactorValuesAt returns a
\* measurement with all ten fields, each a number; when the environment
\* lookup has no cell at the snapped key or its eight neighbours, it returns
\* what the mock generator returns for the same arguments.
C23_ProviderFallsBackToMock ==
    query # NoValues =>
        /\ DOMAIN query.result = FactorValueFields
        /\ \A f \in FactorValueFields : query.result[f] \in Int
        /\ NoCellNear(query.gridLookup, query.lat, query.lng) =>
               query.result = getMockFactorValues(query.lat, query.lng, query.scenario)

\* C23 witness: with an environment grid of three cells and a conflict grid
\* loaded, a coordinate two keys from the nearest cell got the mock
\* measurement.
C23_Witness ==
    /\ query # NoValues
    /\ query.gridLookup.loaded /\ DOMAIN query.gridLookup.map # {}
    /\ conflictLookup.loaded
    /\ query.lat = 6200 /\ query.lng = 31600
    /\ NoCellNear(query.gridLookup, query.lat, query.lng)
    /\ query.result = getMockFactorValues(query.lat, query.lng, query.scenario)

\* C23: a coordinate beside a cell got the cell's measurement, not the mock
\* one, and a coordinate asked over a grid without cells got the mock one.
C23_CellBeside ==
    /\ query # NoValues
    /\ ~NoCellNear(query.gridLookup, query.lat, query.lng)
    /\ query.lat = 6250
    /\ query.result # getMockFactorValues(query.lat, query.lng, query.scenario)
C23_EmptyGrid ==
    /\ query # NoValues
    /\ query.gridLookup.loaded /\ DOMAIN query.gridLookup.map = {}
    /\ query.result = getMockFactorValues(query.lat, query.lng, query.scenario)

\* The rules of COUNTY_RULES whose box contains the point, boundaries
\* included.
BoxesAround(lat, lng) ==
    { k \in DOMAIN COUNTY_RULES :
        /\ lat >= COUNTY_RULES[k].bbox.south /\ lat <= COUNTY_RULES[k].bbox.north
        /\ lng >= COUNTY_RULES[k].bbox.west /\ lng <= COUNTY_RULES[k].bbox.east }

\* C24: the county boxes are pairwise non-overlapping: no point for which a
\* profile is resolved lies inside more than one box.
C24_BoxesDisjoint ==
    query # NoValues => Cardinality(BoxesAround(query.lat, query.lng)) <= 1

\* C24: what holds instead: the county of the profile is that of the first
\* rule, in declaration order, whose box contains the point ("other" when
\* there is none), and no point lies in more than two boxes.
C24_FirstBoxWins ==
    query # NoValues =>
        LET around == BoxesAround(query.lat, query.lng)
        IN  /\ Cardinality(around) <= 2
            /\ IF around = {} THEN query.profile.county = "other"
               ELSE \E k \in around :
                       /\ \A other \in around : k <= other
                       /\ query.profile.county = COUNTY_RULES[k].county

\* C24: a profile has been resolved at (7.35, 31.4), inside the boxes of duk
\* and of ayod and not on a boundary of either; it is duk's.
C24_InsideDukAndAyod ==
    /\ query # NoValues
    /\ query.lat = 7350 /\ query.lng = 31400
    /\ BoxesAround(query.lat, query.lng) = {2, 3}
    /\ query.profile.county = "duk"

\* The step in degrees of a day step from (lat, lng).
StepDegFrom(copy, lat, lng, speedKmDay, scenario) ==
    The({ KmThisDay(band, lat, lng, speedKmDay, scenario) \div 111
          : band \in { getMovementLikelihood(computeCSI(computeFactorIndices(
                           FactorValuesFor(copy, lat, lng, scenario)))).band } })

\* The path costs of the candidates of a day step from (lat, lng) that lie
\* inside the margin-inset bounds, by direction index.
InsideCosts(copy, lat, lng, stepDeg, scenario) ==
    [ i \in { j \in 0 .. 7 : InsideMargin(CandidateAt(j, lat, lng, stepDeg, scenario)) } |->
        The({ evaluateCandidate(copy, c.lat, c.lng, scenario).cost
              : c \in { CandidateAt(i, lat, lng, stepDeg, scenario) } }) ]

\* The direction indices of minimal cost.
Cheapest(cost) == { i \in DOMAIN cost : \A j \in DOMAIN cost : cost[i] <= cost[j] }

\* The next day step, from the position and day the running loop is at.
StepArgs ==
    [ copy |-> sim.copy, lat |-> StepFrom.lat, lng |-> StepFrom.lng,
      speed |-> SeedsOf(sim.copy)[seedIdx].speed,
      scenario |-> [ day |-> StepFrom.day ] @@ sim.scenario ]

\* C25: when at least one candidate of a day step is in bounds, the herd
\* moves to an in-bounds candidate of minimal path cost, and among the
\* candidates of minimal cost to the one of lowest direction index; the
\* rationale names that direction.
C25_CheapestFirstDirection ==
    [][ (pc = "trail" \/ pc = "forecast") =>
        \A a \in { StepArgs } :
        \A stepDeg \in { StepDegFrom(a.copy, a.lat, a.lng, a.speed, a.scenario) } :
        \A cost \in { InsideCosts(a.copy, a.lat, a.lng, stepDeg, a.scenario) } :
            DOMAIN cost # {} =>
                \E i \in Cheapest(cost) :
                    /\ \A j \in Cheapest(cost) : i <= j
                    /\ RecordedByStep.lat = CandidateAt(i, a.lat, a.lng, stepDeg, a.scenario).lat
                    /\ RecordedByStep.lng = CandidateAt(i, a.lat, a.lng, stepDeg, a.scenario).lng
                    /\ pc = "forecast" => ReasonOfStep.direction = DIR_NAMES[i + 1] ]_vars

\* C25 witness: the first trail step of a herd has been made from its seed
\* position, where several in-bounds candidates shared the minimal cost, a
\* costlier in-bounds candidate existed and north was not among the
\* cheapest; the trail holds the cheapest candidate of lowest index.
C25_Witness ==
    /\ pc = "trail" /\ Len(trail) = 1
    /\ \E a \in { [ copy |-> sim.copy, lat |-> SeedsOf(sim.copy)[seedIdx].baseLat,
                     lng |-> SeedsOf(sim.copy)[seedIdx].baseLng,
                     speed |-> SeedsOf(sim.copy)[seedIdx].speed,
                     scenario |-> [ day |-> trail[1].day ] @@ sim.scenario ] } :
       \E stepDeg \in { StepDegFrom(a.copy, a.lat, a.lng, a.speed, a.scenario) } :
       \E cost \in { InsideCosts(a.copy, a.lat, a.lng, stepDeg, a.scenario) } :
           /\ Cardinality(Cheapest(cost)) >= 2
           /\ Cheapest(cost) # DOMAIN cost
           /\ 0 \notin Cheapest(cost)
           /\ usedLookups.gridLookup = gridLookup
           /\ usedLookups.conflictLookup = conflictLookup
           /\ \E i \in Cheapest(cost) :
                  /\ \A j \in Cheapest(cost) : i <= j
                  /\ trail[1].lat = CandidateAt(i, a.lat, a.lng, stepDeg, a.scenario).lat
                  /\ trail[1].lng = CandidateAt(i, a.lat, a.lng, stepDeg, a.scenario).lng

\* The days of a list of points are firstDay, firstDay + 1, ..., lastDay, in
\* order (no point when lastDay < firstDay).
ConsecutiveDays(points, firstDay, lastDay) ==
    /\ Len(points) = (IF lastDay >= firstDay THEN lastDay - firstDay + 1 ELSE 0)
    /\ \A k \in DOMAIN points : points[k].day = firstDay + k - 1

\* C26: each herd simulateHerds returns has a trail of consecutive days from
\* currentDay - min(currentDay, 7) to currentDay, at most eight points, and
\* a predicted list of exactly forecastDays points for the days
\* currentDay + 1 .. currentDay + forecastDays.
C26_TrailAndForecastDays ==
    \A h \in DOMAIN herds :
        /\ ConsecutiveDays(herds[h].trail,
                           sim.currentDay - (IF sim.currentDay <= 7 THEN sim.currentDay ELSE 7),
                           sim.currentDay)
        /\ Len(herds[h].trail) <= 8
        /\ herds[h].trail[1].day >= 0
        /\ Len(herds[h].predicted) = sim.forecastDays
        /\ ConsecutiveDays(herds[h].predicted, sim.currentDay + 1,
                           sim.currentDay + sim.forecastDays)

\* C26 witness: simulateHerds has returned for day 9 with a forecast: every
\* herd has a trail over the days 2 .. 9 and a forecast from day 10.
C26_Witness ==
    /\ pc = "done"
    /\ sim.currentDay = 9 /\ sim.forecastDays >= 2
    /\ Len(herds) = Len(SeedsOf(sim.copy))
    /\ \A h \in DOMAIN herds :
          /\ Len(herds[h].trail) = 8
          /\ herds[h].trail[1].day = 2 /\ herds[h].trail[8].day = 9
          /\ herds[h].predicted[1].day = 10

\* C26: simulateHerds has returned for day 0 without forecast: every trail
\* is the single point of day 0.
C26_DayZero ==
    /\ pc = "done"
    /\ sim.currentDay = 0 /\ sim.forecastDays = 0
    /\ \A h \in DOMAIN herds :
          Len(herds[h].trail) = 1 /\ herds[h].trail[1].day = 0 /\ herds[h].predicted = << >>

\* The pair (i, j) of the herd list meets the convergence and two-trigger
\* conditions on day offset d.
PairAlertsOn(i, j, d) ==
    pairStep(riskIn.herds, riskIn.baseDay, riskIn.scenario, d, i, j).emit

\* An alert of the pair (i, j) for day offset d was generated.
PairAlertGenerated(i, j, d) ==
    \E k \in DOMAIN generated :
        /\ generated[k].herdIds = << riskIn.herds[i].id, riskIn.herds[j].id >>
        /\ generated[k].daysAway = d

\* C27: every herd pair is evaluated on every day offset up to the length
\* of both herds' predicted lists: where the pair meets the convergence and
\* two-trigger conditions an alert is generated, whatever the order of the
\* herds and the forecast length of the other herds.
C27_EveryPairEveryDay ==
    risk # NoValues =>
        \A i \in DOMAIN riskIn.herds, j \in DOMAIN riskIn.herds :
            i < j =>
                \A d \in 1 .. Min(Len(riskIn.herds[i].predicted),
                                  Len(riskIn.herds[j].predicted)) :
                    PairAlertsOn(i, j, d) => PairAlertGenerated(i, j, d)

\* C27: what holds instead: the day offsets evaluated are those up to the
\* length of the first herd's predicted list (4 for an empty list); on
\* these every pair that meets the conditions has its alert generated, and
\* no alert is generated for a later day.
C27_EveryPairUpToFirstHerdsForecast ==
    risk # NoValues =>
        /\ \A i \in DOMAIN riskIn.herds, j \in DOMAIN riskIn.herds :
               i < j =>
                   \A d \in 1 .. forecastDaysOf(riskIn.herds) :
                       PairAlertsOn(i, j, d) => PairAlertGenerated(i, j, d)
        /\ \A k \in DOMAIN generated :
               generated[k].daysAway <= forecastDaysOf(riskIn.herds)

\* C27: detectRisks has returned for a list whose second and third herd
\* have three-day forecasts and meet the conditions on the third day, the
\* first herd's forecast being one day long: only day 1 was evaluated.
C27_ThirdDaySkipped ==
    /\ risk # NoValues
    /\ riskIn.herds \in ShortFirstLists
    /\ PairAlertsOn(2, 3, 3)
    /\ \A k \in DOMAIN generated : generated[k].daysAway = 1

\* C28: every alert detectRisks generates, and every suggested action it
\* generates or returns, has riskCategory community_protection; none has
\* resource_tension.
C28_NoResourceTension ==
    risk # NoValues =>
        /\ \A x \in GeneratedAlerts \cup ReturnedAlerts :
               /\ x.riskCategory = "community_protection"
               /\ \A k \in DOMAIN x.suggestedActions :
                      x.suggestedActions[k].riskCategory = "community_protection"
        /\ \A k \in DOMAIN risk.suggestedActions :
               risk.suggestedActions[k].riskCategory = "community_protection"

\* C28: detectRisks has returned nothing for two herds that converge where
\* resources are scarce and no village, farm or conflict history is near.
C28_ScarcityAlone ==
    /\ risk # NoValues
    /\ riskIn.herds \in RemoteLists
    /\ generated = << >>
    /\ \E fp \in { futurePositions(riskIn.herds, 1) } :
       \E sc \in { [ day |-> riskIn.baseDay + 1 ] @@ riskIn.scenario } :
       \E mid \in { [ lat |-> (fp[1].lat + fp[2].lat) \div 2,
                      lng |-> (fp[1].lng + fp[2].lng) \div 2 ] } :
       \E profile \in { getRiskThresholdProfile(mid.lat, mid.lng, sc) } :
       \E t \in { triggersAt(mid.lat, mid.lng, profile, sc) } :
           /\ converging(distanceKm(fp[1].lat, fp[1].lng, fp[2].lat, fp[2].lng), profile)
           /\ t.resourceScarcity
           /\ ~t.nearVillage /\ ~t.nearFarm /\ ~t.hasHistory

\* C28 witness: an alert was returned on two triggers only, one of them
\* resource scarcity; it is a community_protection alert.
C28_Witness ==
    /\ risk # NoValues
    /\ \E x \in ReturnedAlerts :
          /\ x.triggers.resourceScarcity
          /\ \/ x.triggers.nearVillage /\ ~x.triggers.nearFarmland
                 /\ ~x.triggers.historicalConflict
             \/ ~x.triggers.nearVillage /\ x.triggers.nearFarmland
                 /\ ~x.triggers.historicalConflict
             \/ ~x.triggers.nearVillage /\ ~x.triggers.nearFarmland
                 /\ x.triggers.historicalConflict
          /\ x.riskCategory = "community_protection"
    /\ risk.suggestedActions # << >>

\* The id contains the character "-".
HasDash(id) == \E k \in DOMAIN id : id[k] = Dash[1]

\* C29: deduplication merges two alerts only if they are for the same
\* unordered pair of herd ids: alerts with the same pair key are for the
\* same pair, and every pair with a generated alert keeps an alert after
\* deduplication, also for herd ids that contain "-".
C29_KeySeparatesPairs ==
    risk # NoValues =>
        /\ \A x \in GeneratedAlerts, y \in GeneratedAlerts :
               pairKey(x.herdIds) = pairKey(y.herdIds) => PairOf(x) = PairOf(y)
        /\ \A g \in GeneratedAlerts : \E x \in DedupedAlerts : PairOf(x) = PairOf(g)

\* C29: what holds instead: the same for alerts whose herd ids contain no
\* "-"; and alerts of the same unordered pair always have the same key.
C29_KeySeparatesPlainPairs ==
    risk # NoValues =>
        /\ \A x \in GeneratedAlerts, y \in GeneratedAlerts :
               /\ PairOf(x) = PairOf(y) => pairKey(x.herdIds) = pairKey(y.herdIds)
               /\ (/\ pairKey(x.herdIds) = pairKey(y.herdIds)
                   /\ \A id \in PairOf(x) \cup PairOf(y) : ~HasDash(id))
                       => PairOf(x) = PairOf(y)
        /\ (\A h \in DOMAIN riskIn.herds : ~HasDash(riskIn.herds[h].id))
               => \A g \in GeneratedAlerts : \E x \in DedupedAlerts : PairOf(x) = PairOf(g)

\* C29: the pairs ("A-B", "C") and ("A", "B-C") both alerted, under the one
\* key "A-B-C", and no alert of the pair ("A", "B-C") is left after
\* deduplication.
C29_PairDisplaced ==
    /\ risk # NoValues
    /\ \E x \in GeneratedAlerts, y \in GeneratedAlerts :
          /\ PairOf(x) = { << 65, 45, 66 >>, << 67 >> }
          /\ PairOf(y) = { << 65 >>, << 66, 45, 67 >> }
          /\ pairKey(x.herdIds) = pairKey(y.herdIds)
          /\ ~ \E z \in DedupedAlerts : PairOf(z) = PairOf(y)

\* The suggestedActions of one alert, as a set.
ActionsOfAlert(x) == { x.suggestedActions[n] : n \in 1 .. Len(x.suggestedActions) }

\* The entries of the suggestedActions list of the result.
ReturnedActions == { risk.suggestedActions[k] : k \in 1 .. Len(risk.suggestedActions) }

\* C30: every entry of the suggestedActions list of the result is one of the
\* suggestedActions of an alert of the returned alerts list.
C30_ActionsOfReturnedAlerts ==
    risk # NoValues =>
        \A act \in ReturnedActions : \E x \in ReturnedAlerts : act \in ActionsOfAlert(x)

\* C30, as the code behaves: every entry of the suggestedActions list of the
\* result is one of the suggestedActions of a generated alert, the first
\* generated one that holds an action of its herd and type, whether or not
\* that alert was returned.
C30_ActionsOfFirstGeneratedAlert ==
    risk # NoValues =>
        \A act \in ReturnedActions :
            \E m \in 1 .. Len(generated) :
                /\ act \in ActionsOfAlert(generated[m])
                /\ \A n \in 1 .. m - 1 : \A other \in ActionsOfAlert(generated[n]) :
                       ~ (other.herdId = act.herdId /\ other.type = act.type)

\* C30 reached state: a returned action that is among the suggestedActions
\* of no returned alert, while a generated alert that holds it was removed.
C30_ActionOfRemovedAlert ==
    /\ risk # NoValues
    /\ \E act \in ReturnedActions :
          /\ \A x \in ReturnedAlerts : act \notin ActionsOfAlert(x)
          /\ \E g \in GeneratedAlerts \ ReturnedAlerts : act \in ActionsOfAlert(g)

=============================================================================
